---- MODULE Spec2Model ----
(***************************************************************************)
(* A model of the two orchestration workflows of the ARC front end:        *)
(*   - submitQuery and the query event stream (src/context/AppContext.tsx, *)
(*     src/services/api.ts queryPapersStream), with the part of appReducer *)
(*     they dispatch to;                                                    *)
(*   - startBatchUpload, the batch progress subscription and the per-task  *)
(*     cancel / retry controls.                                            *)
(* The application state is one record, `state`, updated only through the  *)
(* reducer cases below; every handler is the fold of the actions it        *)
(* dispatches, in dispatch order.                                          *)
(***************************************************************************)
EXTENDS Integers, Sequences, FiniteSets, TLC

VARIABLES
  state,      \* AppState (the fields the workflows read or write)
  sq,         \* the locals of the running submitQuery call, and its position
  received,   \* history of the query stream: what was handed to onProgress
  ids,        \* number of identifiers generateId has handed out
  sb,         \* the locals of the running startBatchUpload call, and its position
  remote,     \* the calls made to the remote service, and the body transfers
  ctl,        \* the cancel / retry calls awaiting the remote service
  cm,         \* the running buildCitationCheckMap call of a response card
  rd,         \* the read loop of queryPapersStream over the bytes of a body
  twoCalls    \* two submitQuery calls in flight together: locals and history

vars == <<state, sq, received, ids, sb, remote, ctl, cm, rd, twoCalls>>
queryVars == <<sq, received, ids>>
uploadVars == <<sb, remote, ctl>>
renderVars == <<cm>>
streamVars == <<rd>>
callVars == <<twoCalls>>

(***************************************************************************)
(* Values                                                                  *)
(***************************************************************************)
\* JavaScript null / undefined for string-valued fields
null == "null"
\* JavaScript null / undefined for object- and array-valued fields
NULL == <<>>

\* Bounds of the model
MaxEvents == 3

\* generateId: crypto.randomUUID, a fresh identifier at every call
UUIDS == <<"u1", "u2", "u3", "u4", "u5", "u6", "u7">>
generateId(n) == UUIDS[n + 1]

PIPELINE_STEPS ==
  << "rewriting", "entities", "classification", "expansion", "hyde",
     "retrieval", "reranking", "generation", "verification", "web_search" >>

\* A faulty findIndex: a name that is absent counts as the last position
findIndexAbsentLast(name) ==
  IF \E i \in 1..Len(PIPELINE_STEPS) : PIPELINE_STEPS[i] = name
    THEN (CHOOSE i \in 1..Len(PIPELINE_STEPS) : PIPELINE_STEPS[i] = name) - 1
    ELSE Len(PIPELINE_STEPS)

\* PIPELINE_STEPS.findIndex((p) => p.name === name): -1 when absent
findIndex(name) ==
  IF \E i \in 1..Len(PIPELINE_STEPS) : PIPELINE_STEPS[i] = name
    THEN (CHOOSE i \in 1..Len(PIPELINE_STEPS) : PIPELINE_STEPS[i] = name) - 1
    ELSE -1

TerminalStatus == {"completed", "skipped", "failed"}

\* event.data of a progress event.  `present` is FALSE for a missing data
\* field; status "" stands for a data object without a status field;
\* success is FALSE only when the field is explicitly false.
Data(status, skipped, success, chunk, message, citation) ==
  [present |-> TRUE, status |-> status, skipped |-> skipped,
   success |-> success, chunk |-> chunk, message |-> message,
   citation |-> citation]
NoData ==
  [present |-> FALSE, status |-> "", skipped |-> FALSE, success |-> TRUE,
   chunk |-> "", message |-> "", citation |-> NULL]

(***************************************************************************)
(* appReducer: one operator per case, named after the action type.         *)
(***************************************************************************)
SET_LOADING(s, payload) == [s EXCEPT !.isLoading = payload]

SET_CURRENT_QUERY(s, payload) == [s EXCEPT !.currentQuery = payload]

SET_STATS(s, payload) == [s EXCEPT !.stats = payload]

CREATE_CONVERSATION(s, payload) ==
  [s EXCEPT !.conversations = <<payload>> \o s.conversations,
            !.activeConversationId = payload.id]

SET_ACTIVE_CONVERSATION(s, payload) == [s EXCEPT !.activeConversationId = payload]

\* state.conversations[0]?.id ?? null is read from the list before the filter
DELETE_CONVERSATION(s, payload) ==
  LET NotDeleted(c) == c.id # payload
  IN [s EXCEPT
        !.conversations = SelectSeq(s.conversations, NotDeleted),
        !.activeConversationId =
           IF s.activeConversationId = payload
             THEN IF Len(s.conversations) > 0 THEN s.conversations[1].id ELSE null
             ELSE s.activeConversationId]

CLEAR_CONVERSATIONS(s) ==
  [s EXCEPT !.conversations = <<>>, !.activeConversationId = null]

LOAD_CONVERSATIONS(s, payload) ==
  [s EXCEPT !.conversations = payload, !.activeConversationId = null]

ADD_MESSAGE(s, conversationId, message) ==
  [s EXCEPT !.conversations =
     [i \in DOMAIN s.conversations |->
        IF s.conversations[i].id = conversationId
          THEN [s.conversations[i] EXCEPT !.messages = Append(@, message)]
          ELSE s.conversations[i]]]

SET_PIPELINE_PROGRESS(s, payload) == [s EXCEPT !.pipelineProgress = payload]

UPDATE_PIPELINE_STEP(s, step, status, data) ==
  IF s.pipelineProgress = NULL THEN s
  ELSE [s EXCEPT !.pipelineProgress =
          [i \in DOMAIN s.pipelineProgress |->
             IF s.pipelineProgress[i].name = step
               THEN [s.pipelineProgress[i] EXCEPT !.status = status, !.data = data]
               ELSE s.pipelineProgress[i]]]

START_STREAMING(s, messageId, conversationId) ==
  [s EXCEPT !.streamingState =
     [messageId |-> messageId, conversationId |-> conversationId,
      content |-> "", citationChecks |-> <<>>, isStreaming |-> TRUE]]

\* A faulty APPEND_STREAMING_CHUNK: the bound message takes the fragment
\* alone instead of the accumulated content followed by the fragment
AppendChunkOverwriting(s, payload) ==
  IF s.streamingState = NULL THEN s
  ELSE [s EXCEPT
         !.streamingState.content = @ \o payload,
         !.conversations =
           [i \in DOMAIN s.conversations |->
              IF s.conversations[i].id = s.streamingState.conversationId
                THEN [s.conversations[i] EXCEPT !.messages =
                        [j \in DOMAIN @ |->
                           IF @[j].id = s.streamingState.messageId
                             THEN [@[j] EXCEPT !.content = payload]
                             ELSE @[j]]]
                ELSE s.conversations[i]]]

APPEND_STREAMING_CHUNK(s, payload) ==
  IF s.streamingState = NULL THEN s
  ELSE [s EXCEPT
         !.streamingState.content = @ \o payload,
         !.conversations =
           [i \in DOMAIN s.conversations |->
              IF s.conversations[i].id = s.streamingState.conversationId
                THEN [s.conversations[i] EXCEPT !.messages =
                        [j \in DOMAIN @ |->
                           IF @[j].id = s.streamingState.messageId
                             THEN [@[j] EXCEPT !.content =
                                     s.streamingState.content \o payload]
                             ELSE @[j]]]
                ELSE s.conversations[i]]]

\* A faulty ADD_STREAMING_CITATION: the record is not mirrored onto the
\* bound message
AddCitationUnmirrored(s, payload) ==
  IF s.streamingState = NULL THEN s
  ELSE [s EXCEPT !.streamingState.citationChecks = Append(@, payload)]

ADD_STREAMING_CITATION(s, payload) ==
  IF s.streamingState = NULL THEN s
  ELSE [s EXCEPT
         !.streamingState.citationChecks = Append(@, payload),
         !.conversations =
           [i \in DOMAIN s.conversations |->
              IF s.conversations[i].id = s.streamingState.conversationId
                THEN [s.conversations[i] EXCEPT !.messages =
                        [j \in DOMAIN @ |->
                           IF @[j].id = s.streamingState.messageId
                             THEN [@[j] EXCEPT !.metadata =
                                     [citationChecks |->
                                        Append(s.streamingState.citationChecks,
                                               payload)]]
                             ELSE @[j]]]
                ELSE s.conversations[i]]]

STOP_STREAMING(s) == [s EXCEPT !.streamingState = NULL]

UPDATE_MESSAGE(s, conversationId, message) ==
  [s EXCEPT !.conversations =
     [i \in DOMAIN s.conversations |->
        IF s.conversations[i].id = conversationId
          THEN [s.conversations[i] EXCEPT !.messages =
                  [j \in DOMAIN @ |->
                     IF @[j].id = message.id THEN message ELSE @[j]]]
          ELSE s.conversations[i]]]

SET_WEB_SEARCH_PROGRESS(s, payload) == [s EXCEPT !.webSearchProgress = payload]

\* Paper library and batch upload cases.  `updates` is a Partial<...>: a
\* record holding the fields to overwrite.
SET_PAPERS(s, papers) == [s EXCEPT !.papers = papers]

ADD_PAPER(s, payload) == [s EXCEPT !.papers = <<payload>> \o s.papers]

UPDATE_PAPER(s, id, updates) ==
  [s EXCEPT !.papers =
     [i \in DOMAIN s.papers |->
        IF s.papers[i].id = id THEN updates @@ s.papers[i] ELSE s.papers[i]]]

START_BATCH_UPLOAD(s, payload) ==
  [s EXCEPT !.activeBatchUpload = payload,
            !.isUploadPanelOpen = TRUE,
            !.isUploadPanelMinimized = FALSE]

\* A faulty UPDATE_UPLOAD_TASK: the updates go to every task of the batch
UpdateEveryTask(s, taskId, updates) ==
  IF s.activeBatchUpload = NULL THEN s
  ELSE [s EXCEPT !.activeBatchUpload.tasks =
          [i \in DOMAIN @ |-> updates @@ @[i]]]

UPDATE_UPLOAD_TASK(s, taskId, updates) ==
  IF s.activeBatchUpload = NULL THEN s
  ELSE [s EXCEPT !.activeBatchUpload.tasks =
          [i \in DOMAIN @ |->
             IF @[i].taskId = taskId THEN updates @@ @[i] ELSE @[i]]]

\* A faulty CANCEL_UPLOAD_TASK: every task of the batch is cancelled
CancelEveryTask(s, taskId) ==
  IF s.activeBatchUpload = NULL THEN s
  ELSE [s EXCEPT !.activeBatchUpload.tasks =
          [i \in DOMAIN @ |->
             [@[i] EXCEPT !.status = "error", !.errorMessage = "Cancelled"]]]

CANCEL_UPLOAD_TASK(s, taskId) ==
  IF s.activeBatchUpload = NULL THEN s
  ELSE [s EXCEPT !.activeBatchUpload.tasks =
          [i \in DOMAIN @ |->
             IF @[i].taskId = taskId
               THEN [@[i] EXCEPT !.status = "error", !.errorMessage = "Cancelled"]
               ELSE @[i]]]

CLEAR_BATCH_UPLOAD(s) ==
  [s EXCEPT !.activeBatchUpload = NULL,
            !.isUploadPanelOpen = FALSE,
            !.isUploadPanelMinimized = FALSE]

(***************************************************************************)
(* submitQuery: the event callback handed to queryPapersStream             *)
(***************************************************************************)
\* PIPELINE_STEPS.forEach((s) => ...) of the progress branch, from step i on
RECURSIVE ForEachStep(_, _, _, _, _)
ForEachStep(i, s, completedSteps, stepName, data) ==
  IF i > Len(PIPELINE_STEPS) THEN [state |-> s, completedSteps |-> completedSteps]
  ELSE LET name == PIPELINE_STEPS[i] IN
    IF name = stepName
      THEN ForEachStep(i + 1, UPDATE_PIPELINE_STEP(s, name, "active", data),
                       completedSteps, stepName, data)
    ELSE IF name \in completedSteps
      THEN ForEachStep(i + 1, s, completedSteps, stepName, data)
    ELSE IF findIndex(name) < findIndex(stepName)
      THEN ForEachStep(i + 1,
             UPDATE_PIPELINE_STEP(s, name,
               IF data.present /\ data.skipped THEN "skipped" ELSE "completed",
               NoData),
             completedSteps \cup {name}, stepName, data)
    ELSE ForEachStep(i + 1, s, completedSteps, stepName, data)

\* the terminal status the handler gives the event's own step
OwnStatus(data) ==
  IF ~data.success THEN "failed"
  ELSE IF data.skipped THEN "skipped"
  ELSE "completed"

\* streamedCitations.push(citationCheck): once a complete event has stored
\* the array itself as the citationChecks of the response message, a push
\* also lengthens the list held in the state
PushStreamedCitation(s, l, citation) ==
  IF ~l.citationsShared THEN s
  ELSE [s EXCEPT !.conversations =
          [i \in DOMAIN s.conversations |->
             IF s.conversations[i].id = l.conversationId
               THEN [s.conversations[i] EXCEPT !.messages =
                       [j \in DOMAIN @ |->
                          IF @[j].id = l.responseMessageId
                               /\ @[j].metadata # NULL
                            THEN [@[j] EXCEPT !.metadata.citationChecks =
                                    Append(@, citation)]
                            ELSE @[j]]]
               ELSE s.conversations[i]]]

\* event.type === 'progress'
OnProgressEvent(s, l, stepName, data) ==
  IF stepName = "answer_chunk" /\ data.present /\ data.chunk # ""
    THEN [state |-> APPEND_STREAMING_CHUNK(s, data.chunk),
          sq |-> [l EXCEPT !.streamedContent = @ \o data.chunk]]
  ELSE IF stepName = "citation_verified" /\ data.present
    THEN [state |-> ADD_STREAMING_CITATION(
                      PushStreamedCitation(s, l, data.citation), data.citation),
          sq |-> [l EXCEPT !.streamedCitations = Append(@, data.citation)]]
  ELSE IF stepName = "answer_complete"
    THEN [state |-> s, sq |-> l]
  ELSE IF stepName = "web_search_progress" /\ data.present /\ data.message # ""
    THEN [state |-> SET_WEB_SEARCH_PROGRESS(s, data.message), sq |-> l]
  ELSE
    LET s1 == IF stepName = "web_search" /\ data.present /\ data.status = "complete"
                THEN SET_WEB_SEARCH_PROGRESS(s, null) ELSE s
        r  == ForEachStep(1, s1, l.completedSteps, stepName, data)
    IN IF data.present /\ data.status # "starting"
         THEN [state |-> UPDATE_PIPELINE_STEP(r.state, stepName, OwnStatus(data), data),
               sq |-> [l EXCEPT !.completedSteps = r.completedSteps \cup {stepName}]]
         ELSE [state |-> r.state,
               sq |-> [l EXCEPT !.completedSteps = r.completedSteps]]

\* A faulty complete branch: the bulk fields of the event always win
OnCompleteEventBulk(s, l, event) ==
  LET message == [id |-> l.responseMessageId, type |-> "response",
                  content |-> event.answer,
                  metadata |-> [citationChecks |-> event.citation_checks]]
  IN [state |-> UPDATE_MESSAGE(
                  SET_PIPELINE_PROGRESS(STOP_STREAMING(s), NULL),
                  l.conversationId, message),
      sq |-> l]

\* event.type === 'complete'
OnCompleteEvent(s, l, event) ==
  LET finalContent == IF l.streamedContent # "" THEN l.streamedContent
                      ELSE event.answer
      finalCitations == IF Len(l.streamedCitations) > 0 THEN l.streamedCitations
                        ELSE event.citation_checks
      message == [id |-> l.responseMessageId, type |-> "response",
                  content |-> finalContent,
                  metadata |-> [citationChecks |-> finalCitations]]
  IN [state |-> UPDATE_MESSAGE(
                  SET_PIPELINE_PROGRESS(STOP_STREAMING(s), NULL),
                  l.conversationId, message),
      sq |-> [l EXCEPT !.citationsShared = Len(l.streamedCitations) > 0]]

\* event.type === 'error': the streaming state is dropped before the throw
OnErrorEvent(s, l, event) == [state |-> STOP_STREAMING(s), sq |-> l]

\* the callback: the state and locals after it ran, and whether it threw
onProgress(s, l, event) ==
  IF event.type = "progress"
    THEN OnProgressEvent(s, l, event.step, event.data) @@ [threw |-> FALSE]
  ELSE IF event.type = "complete"
    THEN OnCompleteEvent(s, l, event) @@ [threw |-> FALSE]
  ELSE IF event.type = "error"
    THEN OnErrorEvent(s, l, event) @@ [threw |-> TRUE, message |-> event.message]
  ELSE [state |-> s, sq |-> l, threw |-> FALSE]

(***************************************************************************)
(* queryPapersStream: the read loop                                        *)
(***************************************************************************)
\* One `data: ` line of the stream: JSON.parse and the callback run inside
\* one try block whose catch logs and goes on, so a throw of the callback
\* ends there and the loop reads on.
DispatchLine(s, l, event) ==
  LET r == onProgress(s, l, event)
  IN [state |-> r.state, sq |-> r.sq]

\* The events the remote pipeline sends
EventSteps == {"retrieval", "generation", "web_search"}
StepData ==
  { NoData,
    Data("starting", FALSE, TRUE, "", "", NULL),
    Data("complete", FALSE, TRUE, "", "", NULL),
    Data("complete", TRUE, TRUE, "", "", NULL),
    Data("complete", FALSE, FALSE, "", "", NULL) }
Citations ==
  { [citation_id |-> 1, confidence |-> 90, is_valid |-> TRUE],
    [citation_id |-> 1, confidence |-> 30, is_valid |-> FALSE] }
\* the citation_checks field of a complete event
BulkCitationChecks == << [citation_id |-> 2, confidence |-> 50, is_valid |-> FALSE] >>
Progress(step, data) ==
  [type |-> "progress", step |-> step, data |-> data,
   answer |-> "", citation_checks |-> <<>>, message |-> ""]
ProgressEvents ==
  { Progress(step, d) : step \in EventSteps, d \in StepData }
  \cup { Progress("answer_chunk", Data("", FALSE, TRUE, c, "", NULL)) :
           c \in {"", "a", "b"} }
  \cup { Progress("citation_verified", Data("", FALSE, TRUE, "", "", c)) :
           c \in Citations }
  \cup { Progress("answer_complete", Data("", FALSE, TRUE, "", "", NULL)),
         Progress("web_search_progress", Data("", FALSE, TRUE, "", "searching", NULL)),
         Progress("web_search_progress", NoData),
         Progress("citation_verified", NoData) }
CompleteEvents ==
  { [type |-> "complete", step |-> "", data |-> NoData, answer |-> "X is Y",
     citation_checks |-> BulkCitationChecks, message |-> ""] }
ErrorEvents ==
  { [type |-> "error", step |-> "", data |-> NoData, answer |-> "",
     citation_checks |-> <<>>, message |-> "pipeline failed"] }
StreamEvents == ProgressEvents \cup CompleteEvents \cup ErrorEvents

\* Failures of the transport: fetch rejects, the response is not OK, or a
\* read of the body rejects
FetchFailures == {"Failed to fetch", "Request failed with status 500"}
ReadFailures == {"network error"}

(***************************************************************************)
(* submitQuery                                                             *)
(***************************************************************************)
\* The query texts, and String.prototype.trim on them
Queries == {"", "  ", "What is X?"}
trim(q) == IF q = "  " THEN "" ELSE q

initialProgress ==
  [i \in 1..Len(PIPELINE_STEPS) |->
     [name |-> PIPELINE_STEPS[i], status |-> "pending", data |-> NoData]]

\* A faulty setup: the placeholder response is appended ahead of the query
AddPairResponseFirst(s, conversationId, query, n) ==
  LET queryMessage == [id |-> generateId(n), type |-> "query",
                       content |-> query, metadata |-> NULL]
      placeholderMessage == [id |-> generateId(n + 1), type |-> "response",
                             content |-> "",
                             metadata |-> [citationChecks |-> <<>>]]
  IN START_STREAMING(
       ADD_MESSAGE(ADD_MESSAGE(s, conversationId, placeholderMessage),
                   conversationId, queryMessage),
       placeholderMessage.id, conversationId)

\* lines 625-657: the query message, the placeholder response, START_STREAMING
AddPairAndStartStreaming(s, conversationId, query, n) ==
  LET queryMessage == [id |-> generateId(n), type |-> "query",
                       content |-> query, metadata |-> NULL]
      placeholderMessage == [id |-> generateId(n + 1), type |-> "response",
                             content |-> "",
                             metadata |-> [citationChecks |-> <<>>]]
  IN START_STREAMING(
       ADD_MESSAGE(ADD_MESSAGE(s, conversationId, queryMessage),
                   conversationId, placeholderMessage),
       placeholderMessage.id, conversationId)

\* the catch block of submitQuery
CatchQueryFailure(s, conversationId, message, n) ==
  ADD_MESSAGE(s, conversationId,
    [id |-> generateId(n), type |-> "response",
     content |-> "Error: " \o message, metadata |-> NULL])

\* A faulty finally block: the pipeline progress is left as it is
FinallyQueryKeepsProgress(s) == SET_CURRENT_QUERY(SET_LOADING(s, FALSE), "")

\* the finally block of submitQuery, up to the await of api.getStats
FinallyQuery(s) ==
  SET_PIPELINE_PROGRESS(SET_CURRENT_QUERY(SET_LOADING(s, FALSE), ""), NULL)

IdleQuery ==
  [pc |-> "idle", query |-> "", conversationId |-> null,
   responseMessageId |-> null, completedSteps |-> {},
   streamedContent |-> "", streamedCitations |-> <<>>,
   citationsShared |-> FALSE]
NoEvents ==
  [count |-> 0, last |-> NULL, fragments |-> <<>>, citations |-> <<>>,
   errors |-> {}]

\* submitQuery(query) up to its first await
SubmitQuery(query) ==
  /\ sq.pc = "idle"
  /\ UNCHANGED <<received, uploadVars, renderVars, streamVars, callVars>>
  /\ IF trim(query) = ""
       THEN /\ sq' = [sq EXCEPT !.pc = "returned"]
            /\ UNCHANGED <<state, ids>>
     ELSE LET s1 == SET_PIPELINE_PROGRESS(SET_LOADING(state, TRUE), initialProgress)
          IN IF state.activeConversationId = null
               THEN /\ state' = CREATE_CONVERSATION(s1,
                                  [id |-> generateId(ids), messages |-> <<>>])
                    /\ sq' = [sq EXCEPT !.pc = "createConversation",
                                        !.query = query,
                                        !.conversationId = generateId(ids)]
                    /\ ids' = ids + 1
               ELSE /\ state' = AddPairAndStartStreaming(
                                  s1, state.activeConversationId, query, ids)
                    /\ sq' = [sq EXCEPT !.pc = "fetch",
                                        !.query = query,
                                        !.conversationId = state.activeConversationId,
                                        !.responseMessageId = generateId(ids + 1)]
                    /\ ids' = ids + 2

\* api.createConversation settles; a failure is logged and the call goes on
CreateConversationSettles ==
  /\ sq.pc = "createConversation"
  /\ state' = AddPairAndStartStreaming(state, sq.conversationId, sq.query, ids)
  /\ sq' = [sq EXCEPT !.pc = "fetch", !.responseMessageId = generateId(ids + 1)]
  /\ ids' = ids + 2
  /\ UNCHANGED <<received, uploadVars, renderVars, streamVars, callVars>>

\* the fetch of queryPapersStream resolves with an OK response
FetchOk ==
  /\ sq.pc = "fetch"
  /\ sq' = [sq EXCEPT !.pc = "read"]
  /\ UNCHANGED <<state, received, ids, uploadVars, renderVars, streamVars, callVars>>

\* the fetch rejects or the response is not OK: catch, then finally
FetchFails ==
  /\ sq.pc = "fetch"
  /\ \E m \in FetchFailures :
       state' = FinallyQuery(CatchQueryFailure(state, sq.conversationId, m, ids))
  /\ sq' = [sq EXCEPT !.pc = "getStats"]
  /\ ids' = ids + 1
  /\ UNCHANGED <<received, uploadVars, renderVars, streamVars, callVars>>

\* reader.read() delivers one event line
ReadEvent ==
  /\ sq.pc = "read"
  /\ received.count < MaxEvents
  /\ \E event \in StreamEvents :
       LET r == DispatchLine(state, sq, event) IN
         /\ received' =
              [count |-> received.count + 1,
               last |-> event,
               fragments |->
                 IF event.step = "answer_chunk"
                   THEN Append(received.fragments, event.data.chunk)
                   ELSE received.fragments,
               citations |->
                 IF event.step = "citation_verified" /\ event.data.present
                   THEN Append(received.citations, event.data.citation)
                   ELSE received.citations,
               errors |->
                 IF event.type = "error"
                   THEN received.errors \cup {event.message}
                   ELSE received.errors]
         /\ state' = r.state
         /\ sq' = r.sq
  /\ UNCHANGED <<ids, uploadVars, renderVars, streamVars, callVars>>

\* reader.read() reports done: queryPapersStream returns, then finally
ReadDone ==
  /\ sq.pc = "read"
  /\ state' = FinallyQuery(state)
  /\ sq' = [sq EXCEPT !.pc = "getStats"]
  /\ UNCHANGED <<received, ids, uploadVars, renderVars, streamVars, callVars>>

\* reader.read() rejects: catch, then finally
ReadFails ==
  /\ sq.pc = "read"
  /\ \E m \in ReadFailures :
       state' = FinallyQuery(CatchQueryFailure(state, sq.conversationId, m, ids))
  /\ sq' = [sq EXCEPT !.pc = "getStats"]
  /\ ids' = ids + 1
  /\ UNCHANGED <<received, uploadVars, renderVars, streamVars, callVars>>

\* api.getStats settles: SET_STATS on success, a log on failure
GetStatsSettles ==
  /\ sq.pc = "getStats"
  /\ \E ok \in BOOLEAN :
       state' = IF ok THEN SET_STATS(state, "stats") ELSE state
  /\ sq' = [sq EXCEPT !.pc = "returned"]
  /\ UNCHANGED <<received, ids, uploadVars, renderVars, streamVars, callVars>>

(***************************************************************************)
(* startBatchUpload                                                        *)
(***************************************************************************)
\* Bounds of the model
MaxFiles == 3
MaxBatchEvents == 2
MaxClicks == 2
MaxChunkLines == 2

\* Program constants
MaxFilesPerBatch == 20
concurrency == 2

\* The files a user can submit: the i-th file of a selection is named
\* FileNames[i]; `hash` is the SHA-256 digest of its bytes
FileNames == <<"f1.pdf", "f2.pdf", "f3.pdf", "f4.pdf", "f5.pdf">>
Hashes == {"h1", "h2"}
\* what the library may already hold when the duplicate check is answered
KnownSets == {{}, {"h1"}}
FileLists ==
  UNION { { [i \in 1..n |-> [name |-> FileNames[i], hash |-> hs[i]]] :
            hs \in [1..n -> Hashes] } : n \in 0..MaxFiles }
computeFileHash(file) == file.hash

\* The identifiers the remote service gives the tasks of a batch and the
\* papers it indexes from them
TaskIds == <<"t1", "t2", "t3", "t4", "t5">>
PaperIds == <<"p1", "p2", "p3", "p4", "p5">>

Min(a, b) == IF a < b THEN a ELSE b

IdleUpload ==
  [pc |-> "idle", files |-> <<>>, fileHashes |-> <<>>, duplicates |-> <<>>,
   uniqueFiles |-> <<>>, filenames |-> <<>>, batch |-> NULL, i |-> 0,
   failedAt |-> null]
NoRemote ==
  [checkDuplicatesCalls |-> 0, initCalls |-> 0, subscriptions |-> 0,
   closed |-> FALSE, batchEvents |-> 0, lastEvent |-> NULL,
   afterComplete |-> 0, dropped |-> 0, settledOk |-> TRUE,
   transfers |-> <<>>,
   uploadCalls |-> <<>>, startProcessingCalls |-> 0,
   cancelCalls |-> <<>>, retryCalls |-> <<>>, clicks |-> 0,
   getPapersPending |-> 0, getStatsPending |-> 0, library |-> <<>>]

\* lines 1013-1017: the files whose hash the duplicate check did not report
\* A faulty UniqueFiles: the filter keeps every file
UniqueFilesUnfiltered(fileHashes, duplicates) ==
  [i \in DOMAIN fileHashes |-> fileHashes[i].file]

UniqueFiles(fileHashes, duplicates) ==
  LET duplicateHashes == { duplicates[i].hash : i \in DOMAIN duplicates }
      NotDuplicate(fh) == fh.hash \notin duplicateHashes
      kept == SelectSeq(fileHashes, NotDuplicate)
  IN [i \in DOMAIN kept |-> kept[i].file]

\* The answer of the remote duplicate check for `hashes` when the library
\* knows the digests in `known`: one record for each hash asked and known
DuplicatesOf(hashes, known) ==
  LET Known(h) == h \in known
      found == SelectSeq(hashes, Known)
  IN [i \in DOMAIN found |-> [hash |-> found[i]]]

\* The answer of initBatchUpload: one pending task for each filename
InitResponse(filenames) ==
  [batchId |-> "b1",
   tasks |-> [i \in DOMAIN filenames |->
                [taskId |-> TaskIds[i], filename |-> filenames[i],
                 status |-> "pending", progressPercent |-> 0,
                 errorMessage |-> null, currentStep |-> null,
                 paperId |-> null]]]

\* lines 1050-1059: the batch, each task with its file by position (the File
\* object a task refers to is named by its name)
MakeBatch(initResponse, uniqueFiles, duplicateCount) ==
  [batchId |-> initResponse.batchId,
   tasks |-> [i \in DOMAIN initResponse.tasks |->
                initResponse.tasks[i] @@ [file |-> uniqueFiles[i].name]],
   isMinimized |-> FALSE,
   skippedDuplicates |-> duplicateCount]

\* lines 1064-1078: one placeholder Paper for each task, in task order
RECURSIVE AddPendingPapers(_, _, _)
AddPendingPapers(s, tasks, k) ==
  IF k > Len(tasks) THEN s
  ELSE AddPendingPapers(
         ADD_PAPER(s, [id |-> tasks[k].taskId, status |-> "pending",
                       progress |-> 0, errorMessage |-> null]),
         tasks, k + 1)

\* lines 1161-1171: the chunk batch.tasks.slice(i, i + concurrency) is
\* started: each task is set to uploading and its body transfer begins
\* A faulty chunk: Promise.all given the first transfer of the chunk only
ChunkOfFirst(batch, i) == {i + 1}

ChunkOf(batch, i) == (i + 1)..Min(i + concurrency, Len(batch.tasks))

\* A faulty loop condition, one short
LoopContinuesOneShort(batch, i) == i + 1 < Len(batch.tasks)

\* line 1160: the condition of for (let i = 0; i < batch.tasks.length; ...)
LoopContinues(batch, i) == i < Len(batch.tasks)

RECURSIVE StartChunkFrom(_, _, _, _, _)
StartChunkFrom(s, r, batch, k, last) ==
  IF k > last THEN [state |-> s, remote |-> r]
  ELSE IF batch.tasks[k].file = null
    THEN StartChunkFrom(s, r, batch, k + 1, last)
  ELSE StartChunkFrom(
         UPDATE_UPLOAD_TASK(s, batch.tasks[k].taskId, [status |-> "uploading"]),
         [r EXCEPT !.transfers[k] = "inflight",
                   !.uploadCalls = Append(@, batch.tasks[k].taskId)],
         batch, k + 1, last)

\* A faulty slice: one task more than `concurrency` in a chunk
StartChunkWide(s, r, batch, i) ==
  StartChunkFrom(s, r, batch, i + 1, Min(i + concurrency + 1, Len(batch.tasks)))

StartChunk(s, r, batch, i) ==
  StartChunkFrom(s, r, batch, i + 1, Min(i + concurrency, Len(batch.tasks)))

\* A faulty catch: the attempt goes on with every file as if none were a
\* duplicate
CatchFallsBack(l) ==
  [l EXCEPT !.pc = "initBatchUpload", !.failedAt = l.pc,
            !.uniqueFiles = l.files,
            !.filenames = [i \in DOMAIN l.files |-> l.files[i].name]]

\* lines 1196-1198: the catch of startBatchUpload logs the failure of the
\* call awaited at l.pc, and the function returns
CatchUploadFailure(l) == [l EXCEPT !.pc = "returned", !.failedAt = l.pc]

\* startBatchUpload(files) up to its first await
StartBatchUpload(files) ==
  /\ sb.pc = "idle"
  /\ IF Len(files) = 0 \/ Len(files) > MaxFilesPerBatch
       THEN sb' = [sb EXCEPT !.pc = "returned"]
       ELSE sb' = [sb EXCEPT !.pc = "computeFileHash", !.files = files]
  /\ UNCHANGED <<state, remote, ctl, queryVars, renderVars, streamVars, callVars>>

\* Promise.all of the digests settles; on success checkDuplicates is called
HashesSettle ==
  /\ sb.pc = "computeFileHash"
  /\ \E ok \in BOOLEAN :
       IF ok
         THEN LET fileHashes ==
                    [i \in DOMAIN sb.files |->
                       [file |-> sb.files[i], hash |-> computeFileHash(sb.files[i])]]
              IN /\ sb' = [sb EXCEPT !.pc = "checkDuplicates",
                                     !.fileHashes = fileHashes]
                 /\ remote' = [remote EXCEPT !.checkDuplicatesCalls = @ + 1]
         ELSE /\ sb' = CatchUploadFailure(sb)
              /\ UNCHANGED remote
  /\ UNCHANGED <<state, ctl, queryVars, renderVars, streamVars, callVars>>

\* checkDuplicates settles; with files left, initBatchUpload is called
CheckDuplicatesSettles ==
  /\ sb.pc = "checkDuplicates"
  /\ \E ok \in BOOLEAN, known \in KnownSets :
       IF ok
         THEN LET hashes == [i \in DOMAIN sb.fileHashes |-> sb.fileHashes[i].hash]
                  duplicates == DuplicatesOf(hashes, known)
                  uniqueFiles == UniqueFiles(sb.fileHashes, duplicates)
                  filenames == [i \in DOMAIN uniqueFiles |-> uniqueFiles[i].name]
              IN IF Len(uniqueFiles) = 0
                   THEN /\ sb' = [sb EXCEPT !.pc = "returned",
                                            !.duplicates = duplicates]
                        /\ UNCHANGED remote
                   ELSE /\ sb' = [sb EXCEPT !.pc = "initBatchUpload",
                                            !.duplicates = duplicates,
                                            !.uniqueFiles = uniqueFiles,
                                            !.filenames = filenames]
                        /\ remote' = [remote EXCEPT !.initCalls = @ + 1]
         ELSE /\ sb' = CatchUploadFailure(sb)
              /\ UNCHANGED remote
  /\ UNCHANGED <<state, ctl, queryVars, renderVars, streamVars, callVars>>

\* initBatchUpload settles; on success the batch is registered, the
\* placeholder papers are added, the progress stream is opened and the first
\* chunk is started.  The locals read no more from here on (files,
\* fileHashes, duplicates, uniqueFiles, filenames) are dropped.
InitBatchUploadSettles ==
  /\ sb.pc = "initBatchUpload"
  /\ \E ok \in BOOLEAN :
       IF ok
         THEN LET initResponse == InitResponse(sb.filenames)
                  batch == MakeBatch(initResponse, sb.uniqueFiles, Len(sb.duplicates))
                  s1 == AddPendingPapers(START_BATCH_UPLOAD(state, batch),
                                         batch.tasks, 1)
                  r1 == [remote EXCEPT
                           !.subscriptions = @ + 1,
                           !.transfers = [k \in DOMAIN batch.tasks |-> "none"]]
                  started == StartChunk(s1, r1, batch, 0)
              IN /\ state' = started.state
                 /\ remote' = started.remote
                 /\ sb' = [IdleUpload EXCEPT !.pc = "uploadBatchFile",
                                             !.batch = batch, !.i = 0,
                                             !.failedAt = sb.failedAt]
         ELSE /\ sb' = CatchUploadFailure(sb)
              /\ UNCHANGED <<state, remote>>
  /\ UNCHANGED <<ctl, queryVars, renderVars, streamVars, callVars>>

\* A faulty catch: the task is set to error without the failure message
CatchTransferFailureSilent(s, task) ==
  UPDATE_UPLOAD_TASK(s, task.taskId, [status |-> "error"])

\* lines 1175-1187: the catch around the body transfer of one task
CatchTransferFailure(s, task) ==
  UPDATE_UPLOAD_TASK(s, task.taskId,
    [status |-> "error", errorMessage |-> "Request failed with status 500"])

\* The body transfer of task k settles.  A failure sets the task to error.
\* When it was the last one of its chunk, Promise.all resolves and the loop
\* goes on: the next chunk is started, or startBatchProcessing is called.
UploadBatchFileSettles ==
  /\ sb.pc = "uploadBatchFile"
  /\ \E k \in DOMAIN remote.transfers, ok \in BOOLEAN :
       /\ remote.transfers[k] = "inflight"
       /\ LET task == sb.batch.tasks[k]
              s1 == IF ok THEN state ELSE CatchTransferFailure(state, task)
              r1 == [remote EXCEPT
                       !.transfers[k] = IF ok THEN "ok" ELSE "failed"]
              chunkSettled == \A j \in ChunkOf(sb.batch, sb.i) :
                                r1.transfers[j] # "inflight"
              next == sb.i + concurrency
          IN IF ~chunkSettled
               THEN /\ state' = s1
                    /\ remote' = r1
                    /\ UNCHANGED sb
             ELSE IF LoopContinues(sb.batch, next)
               THEN LET started == StartChunk(s1, r1, sb.batch, next)
                    IN /\ state' = started.state
                       /\ remote' = started.remote
                       /\ sb' = [sb EXCEPT !.i = next]
             ELSE /\ state' = s1
                  /\ remote' = [r1 EXCEPT !.startProcessingCalls = @ + 1]
                  /\ sb' = [sb EXCEPT !.pc = "startBatchProcessing", !.i = next]
  /\ UNCHANGED <<ctl, queryVars, renderVars, streamVars, callVars>>

\* startBatchProcessing settles; a failure is logged by the catch
StartBatchProcessingSettles ==
  /\ sb.pc = "startBatchProcessing"
  /\ sb' = [sb EXCEPT !.pc = "returned"]
  /\ UNCHANGED <<state, remote, ctl, queryVars, renderVars, streamVars, callVars>>

(***************************************************************************)
(* The batch progress subscription (streamBatchProgress and its handler)   *)
(***************************************************************************)
\* The events the remote service sends about the tasks of a batch.  A
\* task_progress event may lack its status field (status null).
BatchEventsOf(tasks) ==
  { [type |-> "task_progress", taskId |-> tasks[k].taskId, status |-> st,
     progressPercent |-> 50, paperId |-> null, errorMessage |-> null] :
      k \in DOMAIN tasks, st \in {null, "extracting"} }
  \cup { [type |-> "task_complete", taskId |-> tasks[k].taskId, status |-> null,
          progressPercent |-> 100, paperId |-> PaperIds[k],
          errorMessage |-> null] : k \in DOMAIN tasks }
  \cup { [type |-> "task_error", taskId |-> tasks[k].taskId, status |-> null,
          progressPercent |-> 0, paperId |-> null,
          errorMessage |-> "corrupt pdf"] : k \in DOMAIN tasks }
  \cup { [type |-> "batch_complete", taskId |-> null, status |-> null,
          progressPercent |-> 0, paperId |-> null, errorMessage |-> null] }

\* The handler startBatchUpload gives streamBatchProgress: the state after
\* the event, and the refreshes it starts
onBatchEvent(s, event) ==
  IF event.type = "task_progress" /\ event.taskId # null
    THEN [state |->
            UPDATE_PAPER(
              UPDATE_UPLOAD_TASK(s, event.taskId,
                [status |-> IF event.status # null THEN event.status
                            ELSE "processing",
                 currentStep |-> null,
                 progressPercent |-> event.progressPercent,
                 paperId |-> event.paperId]),
              event.taskId,
              [status |-> "indexing", progress |-> event.progressPercent]),
          refreshPapers |-> 0, refreshStats |-> 0]
  ELSE IF event.type = "task_complete" /\ event.taskId # null
    THEN [state |->
            UPDATE_UPLOAD_TASK(s, event.taskId,
              [status |-> "complete", progressPercent |-> 100,
               paperId |-> event.paperId]),
          refreshPapers |-> 1, refreshStats |-> 0]
  ELSE IF event.type = "task_error" /\ event.taskId # null
    THEN [state |->
            UPDATE_PAPER(
              UPDATE_UPLOAD_TASK(s, event.taskId,
                [status |-> "error", errorMessage |-> event.errorMessage]),
              event.taskId,
              [status |-> "error", errorMessage |-> event.errorMessage]),
          refreshPapers |-> 0, refreshStats |-> 0]
  ELSE IF event.type = "batch_complete"
    THEN [state |-> s, refreshPapers |-> 1, refreshStats |-> 1]
  ELSE [state |-> s, refreshPapers |-> 0, refreshStats |-> 0]

\* The library listing of the remote service after it sent `event`: a task
\* it reports complete is a paper of the library
LibraryAfter(library, event) ==
  IF event.type = "task_complete"
       /\ \A i \in DOMAIN library : library[i].id # event.paperId
    THEN Append(library, [id |-> event.paperId, status |-> "indexed",
                          progress |-> 100, errorMessage |-> null])
    ELSE library

\* A faulty loop: batch_complete neither closes the stream nor leaves the loop
BreakNever(event) == FALSE

\* api.ts 701-704: batch_complete sets isClosed and leaves the loop
BreakAfter(event) == event.type = "batch_complete"

\* One `data: ` line of the batch stream: onEvent is called, and the remote
\* service sees the refreshes it starts.  afterComplete counts the events
\* handed to onEvent after a batch_complete event.
HandleBatchLine(s, r, event) ==
  LET h == onBatchEvent(s, event)
  IN [state |-> h.state,
      remote |-> [r EXCEPT
                    !.batchEvents = @ + 1,
                    !.afterComplete =
                       IF r.lastEvent # NULL /\ r.lastEvent.type = "batch_complete"
                         THEN @ + 1 ELSE @,
                    !.lastEvent = event,
                    !.closed = BreakAfter(event),
                    !.library = LibraryAfter(@, event),
                    !.getPapersPending = @ + h.refreshPapers,
                    !.getStatsPending = @ + h.refreshStats]]

\* for (const line of lines) over the events of one chunk; `dropped` counts
\* the lines of the chunk the break leaves unread
RECURSIVE ForEachBatchLine(_, _, _)
ForEachBatchLine(s, r, events) ==
  IF events = <<>> THEN [state |-> s, remote |-> r]
  ELSE LET h == HandleBatchLine(s, r, Head(events))
       IN IF BreakAfter(Head(events))
            THEN [state |-> h.state,
                  remote |-> [h.remote EXCEPT !.dropped = @ + Len(events) - 1]]
            ELSE ForEachBatchLine(h.state, h.remote, Tail(events))

\* One event line of the batch stream reaches the handler; batch_complete
\* closes the stream
BatchEvent ==
  /\ remote.subscriptions > 0
  /\ ~remote.closed
  /\ remote.batchEvents < MaxBatchEvents
  /\ \E event \in BatchEventsOf(sb.batch.tasks) :
       LET r == HandleBatchLine(state, remote, event)
       IN /\ state' = r.state
          /\ remote' = r.remote
  /\ UNCHANGED <<sb, ctl, queryVars, renderVars, streamVars, callVars>>

\* One read of the batch stream delivers a chunk of several event lines,
\* once startBatchUpload has returned; the lines are about the first task
\* or the whole batch
BatchChunk ==
  /\ sb.pc = "returned"
  /\ remote.subscriptions > 0
  /\ ~remote.closed
  /\ remote.batchEvents < MaxBatchEvents
  /\ \E n \in 1..MaxChunkLines :
       \E events \in [1..n -> BatchEventsOf(SubSeq(sb.batch.tasks, 1, 1))] :
         LET r == ForEachBatchLine(state, remote, events)
         IN /\ state' = r.state
            /\ remote' = r.remote
  /\ UNCHANGED <<sb, ctl, queryVars, renderVars, streamVars, callVars>>

\* refreshPapers: api.getPapers settles; SET_PAPERS with the listing on
\* success, a log on failure
RefreshPapersSettles ==
  /\ remote.getPapersPending > 0
  /\ \E ok \in BOOLEAN :
       state' = IF ok THEN SET_PAPERS(state, remote.library) ELSE state
  /\ remote' = [remote EXCEPT !.getPapersPending = @ - 1]
  /\ UNCHANGED <<sb, ctl, queryVars, renderVars, streamVars, callVars>>

\* refreshStats: api.getStats settles
RefreshStatsSettles ==
  /\ remote.getStatsPending > 0
  /\ \E ok \in BOOLEAN :
       state' = IF ok THEN SET_STATS(state, "stats") ELSE state
  /\ remote' = [remote EXCEPT !.getStatsPending = @ - 1]
  /\ UNCHANGED <<sb, ctl, queryVars, renderVars, streamVars, callVars>>

\* A component dispatches CLEAR_BATCH_UPLOAD through the dispatch function the
\* context hands out
ClearBatchUpload ==
  /\ state.activeBatchUpload # NULL
  /\ state' = CLEAR_BATCH_UPLOAD(state)
  /\ UNCHANGED <<sb, remote, ctl, queryVars, renderVars, streamVars, callVars>>

\* An event line of the batch stream that arrives once the batch was cleared
BatchEventAfterClear ==
  /\ state.activeBatchUpload = NULL
  /\ BatchEvent

(***************************************************************************)
(* Cancel and retry of one task                                            *)
(***************************************************************************)
\* BatchUploadItem: the buttons a task row offers
canCancel(task) == task.status \in {"pending", "uploading"}
canRetry(task) == task.status = "error"

\* cancelUploadTaskAction(taskId) up to its await: the remote call is made
\* whenever a batch is active
cancelUploadTaskAction(taskId) ==
  IF state.activeBatchUpload = NULL
    THEN /\ ctl' = ctl
         /\ remote' = [remote EXCEPT !.clicks = @ + 1]
    ELSE /\ ctl' = Append(ctl, [op |-> "cancel", taskId |-> taskId])
         /\ remote' = [remote EXCEPT !.cancelCalls = Append(@, taskId),
                                     !.clicks = @ + 1]

\* retryUploadTaskAction(taskId) up to its await
retryUploadTaskAction(taskId) ==
  IF state.activeBatchUpload = NULL
    THEN /\ ctl' = ctl
         /\ remote' = [remote EXCEPT !.clicks = @ + 1]
    ELSE /\ ctl' = Append(ctl, [op |-> "retry", taskId |-> taskId])
         /\ remote' = [remote EXCEPT !.retryCalls = Append(@, taskId),
                                     !.clicks = @ + 1]

\* cancelUploadTask or retryUploadTask of the context is called while no
\* batch is active
ControlWithoutBatch ==
  /\ state.activeBatchUpload = NULL
  /\ remote.clicks < MaxClicks
  /\ \/ cancelUploadTaskAction(TaskIds[1])
     \/ retryUploadTaskAction(TaskIds[1])
  /\ UNCHANGED <<state, sb, queryVars, renderVars, streamVars, callVars>>

\* The user clicks the cancel button of a task row
ClickCancel ==
  /\ state.activeBatchUpload # NULL
  /\ remote.clicks < MaxClicks
  /\ \E k \in DOMAIN state.activeBatchUpload.tasks :
       /\ canCancel(state.activeBatchUpload.tasks[k])
       /\ cancelUploadTaskAction(state.activeBatchUpload.tasks[k].taskId)
  /\ UNCHANGED <<state, sb, queryVars, renderVars, streamVars, callVars>>

\* The user clicks the retry button of a task row
ClickRetry ==
  /\ state.activeBatchUpload # NULL
  /\ remote.clicks < MaxClicks
  /\ \E k \in DOMAIN state.activeBatchUpload.tasks :
       /\ canRetry(state.activeBatchUpload.tasks[k])
       /\ retryUploadTaskAction(state.activeBatchUpload.tasks[k].taskId)
  /\ UNCHANGED <<state, sb, queryVars, renderVars, streamVars, callVars>>

\* ctl without its k-th call
Without(calls, k) ==
  [j \in 1..(Len(calls) - 1) |-> IF j < k THEN calls[j] ELSE calls[j + 1]]

\* The remote cancel call settles: CANCEL_UPLOAD_TASK on success, a log on
\* failure
CancelSettles ==
  /\ \E k \in DOMAIN ctl, ok \in BOOLEAN :
       /\ ctl[k].op = "cancel"
       /\ state' = IF ok THEN CANCEL_UPLOAD_TASK(state, ctl[k].taskId) ELSE state
       /\ ctl' = Without(ctl, k)
       /\ remote' = [remote EXCEPT !.settledOk = ok]
  /\ UNCHANGED <<sb, queryVars, renderVars, streamVars, callVars>>

\* The remote retry call settles: the task is reset on success
RetrySettles ==
  /\ \E k \in DOMAIN ctl, ok \in BOOLEAN :
       /\ ctl[k].op = "retry"
       /\ state' = IF ok
                     THEN UPDATE_UPLOAD_TASK(state, ctl[k].taskId,
                            [status |-> "pending", errorMessage |-> null,
                             progressPercent |-> 0])
                     ELSE state
       /\ ctl' = Without(ctl, k)
       /\ remote' = [remote EXCEPT !.settledOk = ok]
  /\ UNCHANGED <<sb, queryVars, renderVars, streamVars, callVars>>

(***************************************************************************)
(* Initial states and specifications                                       *)
(***************************************************************************)
\* A conversation of an earlier session, with one answered query
EarlierConversation ==
  [id |-> "c0",
   messages |->
     << [id |-> "q0", type |-> "query", content |-> "Earlier?", metadata |-> NULL],
        [id |-> "r0", type |-> "response", content |-> "Earlier.",
         metadata |-> [citationChecks |-> <<>>]] >>]

\* initialState, with the conversation list as the initial load may leave it
initialState(conversations, activeConversationId) ==
  [conversations |-> conversations,
   activeConversationId |-> activeConversationId,
   papers |-> <<>>,
   currentQuery |-> "",
   isLoading |-> FALSE,
   pipelineProgress |-> NULL,
   stats |-> null,
   webSearchProgress |-> null,
   activeBatchUpload |-> NULL,
   isUploadPanelOpen |-> FALSE,
   isUploadPanelMinimized |-> FALSE,
   streamingState |-> NULL]

\* new Map<number, CitationCheck>(): a function from the ids set so far
EmptyMap == <<>>

\* no buildCitationCheckMap call is running
IdleRender == [citationChecks |-> <<>>, k |-> 0, checkMap |-> EmptyMap]

\* queryPapersStream has not been called on a byte stream
IdleRead ==
  [pc |-> "idle", stream |-> <<>>, pos |-> 0, pending |-> <<>>,
   buffer |-> <<>>, log |-> <<>>]

\* neither of the two calls has been made
NoCalls == [c \in 1..2 |-> [sq |-> IdleQuery, received |-> NoEvents]]

\* The application before a query is submitted
InitQuery ==
  /\ state \in { initialState(<<>>, null),
                 initialState(<<EarlierConversation>>, null),
                 initialState(<<EarlierConversation>>, "c0") }
  /\ sq = IdleQuery
  /\ received = NoEvents
  /\ ids = 0
  /\ sb = IdleUpload
  /\ remote = NoRemote
  /\ ctl = <<>>
  /\ cm = IdleRender
  /\ rd = IdleRead
  /\ twoCalls = NoCalls

\* The application before files are submitted
InitUpload ==
  /\ state = initialState(<<>>, null)
  /\ sq = IdleQuery
  /\ received = NoEvents
  /\ ids = 0
  /\ sb = IdleUpload
  /\ remote = NoRemote
  /\ ctl = <<>>
  /\ cm = IdleRender
  /\ rd = IdleRead
  /\ twoCalls = NoCalls

(***************************************************************************)
(* ResponseCard: buildCitationCheckMap                                     *)
(***************************************************************************)
\* Bound of the model: the length of a citationChecks list
MaxChecks == 3

\* CitationCheck records: confidence in tenths; is_valid tells apart two
\* entries of equal id and confidence
CitationIds == {1, 2}
Confidences == {1, 5, 9}
CitationChecks ==
  [citation_id : CitationIds, confidence : Confidences, is_valid : BOOLEAN]
CitationCheckLists ==
  UNION { [1..n -> CitationChecks] : n \in 0..MaxChecks }

\* A faulty loop body: an entry of equal confidence replaces the kept one
checkMapSetOnTie(checkMap, check) ==
  IF check.citation_id \notin DOMAIN checkMap
       \/ check.confidence <= checkMap[check.citation_id].confidence
    THEN (check.citation_id :> check) @@ checkMap
    ELSE checkMap

\* the body of for (const check of citationChecks)
checkMapSet(checkMap, check) ==
  IF check.citation_id \notin DOMAIN checkMap
       \/ check.confidence < checkMap[check.citation_id].confidence
    THEN (check.citation_id :> check) @@ checkMap
    ELSE checkMap

\* buildCitationCheckMap(citationChecks) is called
InitCitations ==
  /\ cm \in { [citationChecks |-> list, k |-> 0, checkMap |-> EmptyMap] :
                list \in CitationCheckLists }
  /\ state = initialState(<<>>, null)
  /\ sq = IdleQuery
  /\ received = NoEvents
  /\ ids = 0
  /\ sb = IdleUpload
  /\ remote = NoRemote
  /\ ctl = <<>>
  /\ rd = IdleRead
  /\ twoCalls = NoCalls

\* one iteration of the loop
ForCheck ==
  /\ cm.k < Len(cm.citationChecks)
  /\ cm' = [cm EXCEPT !.k = @ + 1,
                      !.checkMap = checkMapSet(@, cm.citationChecks[cm.k + 1])]
  /\ UNCHANGED <<state, queryVars, uploadVars, streamVars, callVars>>

NextCitations == ForCheck

\* One buildCitationCheckMap call on any list of citation checks
SpecCitations == InitCitations /\ [][NextCitations]_vars

(***************************************************************************)
(* Two submitQuery calls, the second made while the first is in flight     *)
(***************************************************************************)
MaxCallEvents == 2

\* the events either stream may carry: a fragment, a citation record, the
\* complete event
CallEvents ==
  { Progress("answer_chunk", Data("", FALSE, TRUE, "a", "", NULL)),
    Progress("citation_verified",
             Data("", FALSE, TRUE, "", "",
                  [citation_id |-> 1, confidence |-> 90, is_valid |-> TRUE])) }
  \cup CompleteEvents

\* what was handed to the callback of one call, after one more event
Handed(rc, event) ==
  [count |-> rc.count + 1,
   last |-> event,
   fragments |-> IF event.step = "answer_chunk"
                   THEN Append(rc.fragments, event.data.chunk) ELSE rc.fragments,
   citations |-> IF event.step = "citation_verified" /\ event.data.present
                   THEN Append(rc.citations, event.data.citation)
                   ELSE rc.citations,
   errors |-> IF event.type = "error"
                THEN rc.errors \cup {event.message} ELSE rc.errors]

\* submitQuery(query) of call c up to its await of the fetch, with a
\* conversation active; nothing in submitQuery keeps the second call from
\* starting while the first is in flight
SubmitQueryCall(c) ==
  /\ twoCalls[c].sq.pc = "idle"
  /\ c = 2 => twoCalls[1].sq.pc \in {"fetch", "read"}
  /\ state.activeConversationId # null
  /\ LET s1 == SET_PIPELINE_PROGRESS(SET_LOADING(state, TRUE), initialProgress)
     IN state' = AddPairAndStartStreaming(
                   s1, state.activeConversationId, "What is X?", ids)
  /\ twoCalls' = [twoCalls EXCEPT
                 ![c].sq = [@ EXCEPT !.pc = "fetch",
                                     !.query = "What is X?",
                                     !.conversationId = state.activeConversationId,
                                     !.responseMessageId = generateId(ids + 1)]]
  /\ ids' = ids + 2
  /\ UNCHANGED <<sq, received, uploadVars, renderVars, streamVars>>

\* the fetch of call c settles
FetchSettlesCall(c) ==
  /\ twoCalls[c].sq.pc = "fetch"
  /\ \/ /\ twoCalls' = [twoCalls EXCEPT ![c].sq.pc = "read"]
        /\ UNCHANGED <<state, ids>>
     \/ /\ \E m \in FetchFailures :
             state' = FinallyQuery(
                        CatchQueryFailure(state, twoCalls[c].sq.conversationId, m, ids))
        /\ twoCalls' = [twoCalls EXCEPT ![c].sq.pc = "getStats"]
        /\ ids' = ids + 1
  /\ UNCHANGED <<sq, received, uploadVars, renderVars, streamVars>>

\* the reader of call c delivers one event line
ReadEventCall(c) ==
  /\ twoCalls[c].sq.pc = "read"
  /\ twoCalls[c].received.count < MaxCallEvents
  /\ \E event \in CallEvents :
       LET r == DispatchLine(state, twoCalls[c].sq, event) IN
         /\ state' = r.state
         /\ twoCalls' = [twoCalls EXCEPT
                        ![c] = [sq |-> r.sq,
                                received |-> Handed(twoCalls[c].received, event)]]
  /\ UNCHANGED <<queryVars, uploadVars, renderVars, streamVars>>

\* the reader of call c reports done or rejects: finally, after the catch
\* in the second case
ReadEndsCall(c) ==
  /\ twoCalls[c].sq.pc = "read"
  /\ \/ /\ state' = FinallyQuery(state)
        /\ UNCHANGED ids
     \/ /\ \E m \in ReadFailures :
             state' = FinallyQuery(
                        CatchQueryFailure(state, twoCalls[c].sq.conversationId, m, ids))
        /\ ids' = ids + 1
  /\ twoCalls' = [twoCalls EXCEPT ![c].sq.pc = "getStats"]
  /\ UNCHANGED <<sq, received, uploadVars, renderVars, streamVars>>

\* api.getStats of call c settles
GetStatsSettlesCall(c) ==
  /\ twoCalls[c].sq.pc = "getStats"
  /\ \E ok \in BOOLEAN :
       state' = IF ok THEN SET_STATS(state, "stats") ELSE state
  /\ twoCalls' = [twoCalls EXCEPT ![c].sq.pc = "returned"]
  /\ UNCHANGED <<queryVars, uploadVars, renderVars, streamVars>>

\* The application with a conversation active and no call made
InitCalls ==
  /\ InitQuery
  /\ state = initialState(<<EarlierConversation>>, "c0")

NextCalls ==
  \E c \in 1..2 :
    \/ SubmitQueryCall(c)
    \/ FetchSettlesCall(c)
    \/ ReadEventCall(c)
    \/ ReadEndsCall(c)
    \/ GetStatsSettlesCall(c)

\* Two submitQuery calls on the active conversation, the second made while
\* the first is in flight
SpecCalls == InitCalls /\ [][NextCalls]_vars

(***************************************************************************)
(* The conversation list: the reducer cases that set activeConversationId  *)
(***************************************************************************)
MaxCreated == 3

\* the conversation lists a load may bring
LoadedLists ==
  { <<>>, <<EarlierConversation>>,
    <<EarlierConversation, [id |-> "c1", messages |-> <<>>]>> }

\* the ids a conversation of the list may have
ConversationIds == { UUIDS[n] : n \in 1..MaxCreated } \cup {"c0", "c1"}

\* CREATE_CONVERSATION with a fresh id, as submitQuery dispatches it
CreateConversation ==
  /\ ids < MaxCreated
  /\ state' = CREATE_CONVERSATION(state, [id |-> generateId(ids), messages |-> <<>>])
  /\ ids' = ids + 1
  /\ UNCHANGED <<sq, received, uploadVars, renderVars, streamVars, callVars>>

\* SET_ACTIVE_CONVERSATION to a conversation of the list, or to null
SetActiveConversation ==
  /\ \E id \in { state.conversations[i].id : i \in DOMAIN state.conversations }
                \cup {null} :
       state' = SET_ACTIVE_CONVERSATION(state, id)
  /\ UNCHANGED <<queryVars, uploadVars, renderVars, streamVars, callVars>>

\* deleteConversation(conversationId) once the remote call succeeded
DeleteConversation ==
  /\ \E id \in ConversationIds : state' = DELETE_CONVERSATION(state, id)
  /\ UNCHANGED <<queryVars, uploadVars, renderVars, streamVars, callVars>>

ClearConversations ==
  /\ state' = CLEAR_CONVERSATIONS(state)
  /\ UNCHANGED <<queryVars, uploadVars, renderVars, streamVars, callVars>>

\* loadConversations once the listing arrived
LoadConversations ==
  /\ \E list \in LoadedLists : state' = LOAD_CONVERSATIONS(state, list)
  /\ UNCHANGED <<queryVars, uploadVars, renderVars, streamVars, callVars>>

NextConversations ==
  \/ CreateConversation
  \/ SetActiveConversation
  \/ DeleteConversation
  \/ ClearConversations
  \/ LoadConversations

\* Any sequence of the five actions on the conversation list
SpecConversations == InitUpload /\ [][NextConversations]_vars

(***************************************************************************)
(* queryPapersStream: the read loop over the bytes of the response body    *)
(***************************************************************************)
\* A text is a sequence of characters, a character a one-character string;
\* "U+00E9" and "U+FFFD" stand for the characters of these code points.  A
\* body is a sequence of bytes.
MaxLines == 2

\* UTF-8, as the remote service writes it
encodeChar(c) ==
  CASE c = "\n" -> <<10>>
    [] c = "\r" -> <<13>>
    [] c = " " -> <<32>>
    [] c = "\"" -> <<34>>
    [] c = "1" -> <<49>>
    [] c = "2" -> <<50>>
    [] c = ":" -> <<58>>
    [] c = "a" -> <<97>>
    [] c = "d" -> <<100>>
    [] c = "t" -> <<116>>
    [] c = "{" -> <<123>>
    [] c = "}" -> <<125>>
    [] c = "U+00E9" -> <<195, 169>>

RECURSIVE encode(_)
encode(text) ==
  IF text = <<>> THEN <<>> ELSE encodeChar(Head(text)) \o encode(Tail(text))

\* the character of a one-byte sequence
fromCharCode(b) ==
  CASE b = 10 -> "\n"
    [] b = 13 -> "\r"
    [] b = 32 -> " "
    [] b = 34 -> "\""
    [] b = 49 -> "1"
    [] b = 50 -> "2"
    [] b = 58 -> ":"
    [] b = 97 -> "a"
    [] b = 100 -> "d"
    [] b = 116 -> "t"
    [] b = 123 -> "{"
    [] b = 125 -> "}"
    [] OTHER -> "U+FFFD"

\* TextDecoder: `pending` is the lead byte of a two-byte sequence whose
\* second byte has not been seen; a byte that fits nowhere decodes to U+FFFD
RECURSIVE decodeFrom(_, _, _)
decodeFrom(pending, value, text) ==
  IF value = <<>> THEN [text |-> text, pending |-> pending]
  ELSE LET b == Head(value) IN
    IF pending # <<>>
      THEN IF b \in 128..191
             THEN decodeFrom(<<>>, Tail(value),
                    Append(text, IF pending = <<195>> /\ b = 169
                                   THEN "U+00E9" ELSE "U+FFFD"))
             ELSE decodeFrom(<<>>, value, Append(text, "U+FFFD"))
    ELSE IF b < 128
      THEN decodeFrom(<<>>, Tail(value), Append(text, fromCharCode(b)))
    ELSE IF b \in 194..223
      THEN decodeFrom(<<b>>, Tail(value), text)
    ELSE decodeFrom(<<>>, Tail(value), Append(text, "U+FFFD"))

\* decoder.decode(value, {stream: true})
decode(pending, value) == decodeFrom(pending, value, <<>>)

\* text.split('\n'): the pieces between the line feeds, one at least
RECURSIVE split(_)
split(text) ==
  IF \A i \in DOMAIN text : text[i] # "\n" THEN <<text>>
  ELSE LET i == CHOOSE i \in DOMAIN text :
                  text[i] = "\n" /\ \A j \in 1..(i - 1) : text[j] # "\n"
       IN <<SubSeq(text, 1, i - 1)>> \o split(SubSeq(text, i + 1, Len(text)))

\* A faulty pop: the incomplete last line is dropped
popNothing(lines) == <<>>

\* lines.pop() || '': the last piece, which no line feed has ended yet
pop(lines) == lines[Len(lines)]

\* the lines left in `lines` after lines.pop()
Popped(lines) == SubSeq(lines, 1, Len(lines) - 1)

startsWith(line, prefix) ==
  Len(line) >= Len(prefix) /\ SubSeq(line, 1, Len(prefix)) = prefix

slice(line, n) == SubSeq(line, n + 1, Len(line))

\* String.prototype.trim, over the white space of the model
WhiteSpace == {" ", "\t", "\r", "\n"}
RECURSIVE trimStart(_)
trimStart(text) ==
  IF text # <<>> /\ Head(text) \in WhiteSpace THEN trimStart(Tail(text)) ELSE text
RECURSIVE trimEnd(_)
trimEnd(text) ==
  IF text # <<>> /\ text[Len(text)] \in WhiteSpace
    THEN trimEnd(SubSeq(text, 1, Len(text) - 1)) ELSE text
trimText(text) == trimEnd(trimStart(text))

\* JSON.parse, over the JSON texts of the model: the numbers 1 and 2, the
\* empty object, and a string without escapes.  The value parsed is
\* written as its text.
JSONparse(text) ==
  IF \/ text \in { <<"1">>, <<"2">>, <<"{", "}">> }
     \/ /\ Len(text) >= 2
        /\ text[1] = "\"" /\ text[Len(text)] = "\""
        /\ \A i \in 2..(Len(text) - 1) : text[i] \notin {"\"", "\n", "\r", "\t"}
    THEN [ok |-> TRUE, event |-> text]
    ELSE [ok |-> FALSE, event |-> <<>>]

\* for (const line of lines): the calls of onProgress so far, and after
\* these lines.  A throw of JSON.parse, or of onProgress, is caught and
\* logged for that line.
RECURSIVE ForEachLine(_, _)
ForEachLine(lines, log) ==
  IF lines = <<>> THEN log
  ELSE LET line == Head(lines)
           jsonStr == trimText(slice(line, 6))
       IN ForEachLine(Tail(lines),
            IF startsWith(line, <<"d", "a", "t", "a", ":", " ">>)
                 /\ jsonStr # <<>> /\ JSONparse(jsonStr).ok
              THEN Append(log, JSONparse(jsonStr).event)
              ELSE log)

\* The lines the remote service may write, and what it may leave after the
\* last line feed
LineTexts ==
  { <<"d", "a", "t", "a", ":", " ", "1">>,
    <<"d", "a", "t", "a", ":", " ", "{", "}">>,
    <<"d", "a", "t", "a", ":", " ", "{">>,
    <<"d", "a", "t", "a", ":", " ", "\"", "U+00E9", "\"">>,
    <<"d", "a", "t", "a", ":", " ", " ", "2", "\r">>,
    <<"d", "a", "t", "a", ":", "1">>,
    <<"d", "a", "t", "a", ":", " ">>,
    <<>> }
UnendedTexts == { <<>>, <<"d", "a", "t", "a", ":", " ", "2">> }

RECURSIVE JoinLines(_)
JoinLines(lines) ==
  IF lines = <<>> THEN <<>>
  ELSE Head(lines) \o <<"\n">> \o JoinLines(Tail(lines))

Bodies ==
  { encode(JoinLines(lines) \o rest) :
      lines \in UNION { [1..n -> LineTexts] : n \in 0..MaxLines },
      rest \in UnendedTexts }

\* queryPapersStream is called and the response, with this body, is OK
GetReader(body) ==
  /\ rd.pc = "idle"
  /\ rd' = [IdleRead EXCEPT !.pc = "read", !.stream = body]
  /\ UNCHANGED <<state, queryVars, uploadVars, renderVars, callVars>>

\* reader.read() resolves with the next bytes of the body, however many,
\* and the loop body runs
ReaderRead ==
  /\ rd.pc = "read"
  /\ \E n \in 1..(Len(rd.stream) - rd.pos) :
       LET value == SubSeq(rd.stream, rd.pos + 1, rd.pos + n)
           decoded == decode(rd.pending, value)
           lines == split(rd.buffer \o decoded.text)
       IN rd' = [rd EXCEPT !.pos = @ + n,
                           !.pending = decoded.pending,
                           !.buffer = pop(lines),
                           !.log = ForEachLine(Popped(lines), @)]
  /\ UNCHANGED <<state, queryVars, uploadVars, renderVars, callVars>>

\* reader.read() resolves with done
ReaderDone ==
  /\ rd.pc = "read"
  /\ rd.pos = Len(rd.stream)
  /\ rd' = [rd EXCEPT !.pc = "returned"]
  /\ UNCHANGED <<state, queryVars, uploadVars, renderVars, callVars>>

\* reader.read() rejects: queryPapersStream throws
ReaderRejects ==
  /\ rd.pc = "read"
  /\ rd' = [rd EXCEPT !.pc = "thrown"]
  /\ UNCHANGED <<state, queryVars, uploadVars, renderVars, callVars>>

NextStream ==
  \/ \E body \in Bodies : GetReader(body)
  \/ ReaderRead
  \/ ReaderDone
  \/ ReaderRejects

\* One queryPapersStream call on any body, read in any chunks
SpecStream == InitUpload /\ [][NextStream]_vars

NextQuery ==
  \/ \E query \in Queries : SubmitQuery(query)
  \/ CreateConversationSettles
  \/ FetchOk
  \/ FetchFails
  \/ ReadEvent
  \/ ReadDone
  \/ ReadFails
  \/ GetStatsSettles

\* One submitQuery call, from the submission to its return
SpecQuery == InitQuery /\ [][NextQuery]_vars

\* One submitQuery call each of whose awaits settles: the remote calls are
\* answered or fail, and the stream ends by closing or by a read failure
SpecQueryFair ==
  /\ SpecQuery
  /\ WF_vars(CreateConversationSettles)
  /\ WF_vars(FetchOk \/ FetchFails)
  /\ WF_vars(ReadDone \/ ReadFails)
  /\ WF_vars(GetStatsSettles)

NextUpload ==
  \/ \E files \in FileLists : StartBatchUpload(files)
  \/ HashesSettle
  \/ CheckDuplicatesSettles
  \/ InitBatchUploadSettles
  \/ UploadBatchFileSettles
  \/ StartBatchProcessingSettles
  \/ ClickCancel
  \/ ClickRetry
  \/ ControlWithoutBatch
  \/ CancelSettles
  \/ RetrySettles

\* One startBatchUpload call and the task controls of its batch
SpecUpload == InitUpload /\ [][NextUpload]_vars

NextBatch ==
  \/ \E files \in FileLists : StartBatchUpload(files)
  \/ HashesSettle
  \/ CheckDuplicatesSettles
  \/ InitBatchUploadSettles
  \/ UploadBatchFileSettles
  \/ StartBatchProcessingSettles
  \/ BatchEvent
  \/ RefreshPapersSettles
  \/ RefreshStatsSettles

\* One startBatchUpload call and the progress stream of its batch
SpecBatch == InitUpload /\ [][NextBatch]_vars

NextChunks ==
  \/ \E files \in FileLists : StartBatchUpload(files)
  \/ HashesSettle
  \/ CheckDuplicatesSettles
  \/ InitBatchUploadSettles
  \/ UploadBatchFileSettles
  \/ StartBatchProcessingSettles
  \/ BatchChunk
  \/ RefreshPapersSettles
  \/ RefreshStatsSettles

\* One startBatchUpload call whose progress stream is read in chunks of
\* several lines after the call has returned
SpecChunks == InitUpload /\ [][NextChunks]_vars

NextClear ==
  \/ \E files \in FileLists : StartBatchUpload(files)
  \/ HashesSettle
  \/ CheckDuplicatesSettles
  \/ InitBatchUploadSettles
  \/ UploadBatchFileSettles
  \/ StartBatchProcessingSettles
  \/ ClearBatchUpload
  \/ BatchEventAfterClear
  \/ RefreshPapersSettles
  \/ RefreshStatsSettles

\* One startBatchUpload call whose batch is cleared while its progress stream
\* is still open
SpecClear == InitUpload /\ [][NextClear]_vars

(***************************************************************************)
(* Properties of submitQuery and its event stream (SpecQuery)              *)
(***************************************************************************)
\* the steps of PIPELINE_STEPS before `name`, as positions of pipelineProgress
EarlierSteps(name) == 1..findIndex(name)

\* the last line read was a progress event for a canonical step and the
\* visible step list is still shown
StepEventProcessed ==
  /\ sq.pc = "read"
  /\ received.last # NULL
  /\ received.last.type = "progress"
  /\ findIndex(received.last.step) >= 0
  /\ state.pipelineProgress # NULL

\* C1: right after a progress event for the canonical step at ordinal k has
\* been processed, every step at an ordinal below k is completed, skipped or
\* failed, never pending or active - for any sequence of events, repeated
\* and out-of-order step names included.
C1_EarlierStepsTerminal ==
  StepEventProcessed =>
    \A i \in EarlierSteps(received.last.step) :
      state.pipelineProgress[i].status \in TerminalStatus

\* C2: during one query stream a step that has reached completed, skipped or
\* failed never goes back to pending or active in any later step of the
\* program, whatever events follow.
C2_NoRegression ==
  [][ (state.pipelineProgress # NULL /\ state'.pipelineProgress # NULL) =>
        \A i \in DOMAIN state.pipelineProgress :
          state.pipelineProgress[i].status \in TerminalStatus =>
            state'.pipelineProgress[i].status \in TerminalStatus ]_vars

\* f1 + f2 + ... + fN
RECURSIVE Concat(_)
Concat(fragments) ==
  IF fragments = <<>> THEN ""
  ELSE Head(fragments) \o Concat(Tail(fragments))

\* the messages with identifier messageId in conversation conversationId
MessagesOf(conversationId, messageId) ==
  UNION { { state.conversations[i].messages[j] :
              j \in { j \in DOMAIN state.conversations[i].messages :
                        state.conversations[i].messages[j].id = messageId } } :
          i \in { i \in DOMAIN state.conversations :
                    state.conversations[i].id = conversationId } }

\* C3: while a query is streaming, StreamingState.content is the in-order
\* concatenation of all answer_chunk fragments received so far, and the
\* bound response Message exists and has that same content.
C3_StreamedContent ==
  state.streamingState # NULL =>
    /\ state.streamingState.content = Concat(received.fragments)
    /\ MessagesOf(state.streamingState.conversationId,
                  state.streamingState.messageId) # {}
    /\ \A message \in MessagesOf(state.streamingState.conversationId,
                                 state.streamingState.messageId) :
         message.content = state.streamingState.content

\* two fragments were appended while streaming
C3_Witness ==
  /\ state.streamingState # NULL
  /\ received.fragments = <<"a", "b">>
  /\ state.streamingState.content = "ab"

\* the response messages of the conversation the query was sent in
ResponsesOfQuery ==
  UNION { { state.conversations[i].messages[j] :
              j \in { j \in DOMAIN state.conversations[i].messages :
                        state.conversations[i].messages[j].type = "response" } } :
          i \in { i \in DOMAIN state.conversations :
                    state.conversations[i].id = sq.conversationId } }

\* C9: when the stream delivered an error event with message m, then by the
\* time submitQuery has left its try block a response Message with content
\* "Error: m" has been appended to the conversation of that query.
C9_ErrorEventReported ==
  sq.pc \in {"getStats", "returned"} =>
    \A m \in received.errors :
      \E message \in ResponsesOfQuery : message.content = "Error: " \o m

\* C10: after submitQuery has returned, streamingState is null, however the
\* stream ended: complete event, error event, transport failure, or a close
\* without a complete event.
C10_StreamingStateCleared ==
  sq.pc = "returned" => state.streamingState = NULL

(***************************************************************************)
(* Properties of startBatchUpload and the task controls (SpecUpload)       *)
(***************************************************************************)
\* the tasks of the active batch with status `uploading`
UploadingTasks ==
  { k \in DOMAIN state.activeBatchUpload.tasks :
      state.activeBatchUpload.tasks[k].status = "uploading" }

\* the tasks whose body transfer was started and has not settled
InFlight == { k \in DOMAIN remote.transfers : remote.transfers[k] = "inflight" }

Settled(k) == remote.transfers[k] \in {"ok", "failed"}

\* C4, as stated: in every reachable state at most 2 tasks of the active
\* batch have status uploading.
C4_AtMostTwoUploading ==
  state.activeBatchUpload # NULL => Cardinality(UploadingTasks) <= 2

\* C4, amended: in every reachable state at most 2 tasks of the active batch
\* have status uploading while their body transfer has not settled.
C4_AtMostTwoUploadingInFlight ==
  state.activeBatchUpload # NULL =>
    Cardinality(UploadingTasks \cap InFlight) <= 2

\* a task of the second chunk is uploading, its transfer unsettled, while
\* the two tasks of the first chunk still carry status uploading
C4_Witness ==
  /\ state.activeBatchUpload # NULL
  /\ UploadingTasks = {1, 2, 3}
  /\ InFlight = {3}

\* the chunk of task k: chunks are slices of `concurrency` tasks
ChunkNumber(k) == (k - 1) \div concurrency

\* C5: within one batch at most 2 body transfers are in flight at any time,
\* and no transfer of a later chunk has begun unless every transfer of every
\* earlier chunk has settled, by success or by failure.
C5_TransfersBounded ==
  /\ Cardinality(InFlight) <= 2
  /\ \A j, k \in DOMAIN remote.transfers :
       (ChunkNumber(j) < ChunkNumber(k) /\ remote.transfers[k] # "none")
         => Settled(j)

\* the second chunk was started after a failure and a success in the first
C5_Witness ==
  /\ Len(remote.transfers) = 3
  /\ remote.transfers[1] = "failed"
  /\ remote.transfers[2] = "ok"
  /\ remote.transfers[3] = "inflight"

\* the upload loop of an initialized batch is over
LoopOver == sb.batch # NULL /\ sb.pc \in {"startBatchProcessing", "returned"}

\* C6: for an initialized batch startBatchProcessing is invoked exactly once
\* - never twice, and once when the loop is over - and only after every body
\* transfer of the batch has settled, failures included.
C6_StartProcessingOnce ==
  /\ remote.startProcessingCalls <= 1
  /\ LoopOver => remote.startProcessingCalls = 1
  /\ remote.startProcessingCalls = 1 =>
       /\ LoopOver
       /\ \A k \in DOMAIN remote.transfers : Settled(k)

\* processing was started for a batch all of whose transfers failed
C6_Witness ==
  /\ remote.startProcessingCalls = 1
  /\ Len(remote.transfers) = 3
  /\ \A k \in DOMAIN remote.transfers : remote.transfers[k] = "failed"

\* the hashes checkDuplicates reported as known
ReportedHashes == { sb.duplicates[i].hash : i \in DOMAIN sb.duplicates }

\* the submitted files whose hash was reported, as positions of sb.files
DuplicateFiles ==
  { i \in DOMAIN sb.files : sb.files[i].hash \in ReportedHashes }

\* the position in sb.files of the n-th filename handed to initBatchUpload
PositionOf(n) == CHOOSE i \in DOMAIN sb.files : sb.files[i].name = sb.filenames[n]

\* C7: with F submitted files of which D have a hash checkDuplicates reported
\* as known, initBatchUpload is called with exactly the F - D filenames of
\* the other files in their original order; when D = F it is never called
\* and no batch, placeholder Paper or subscription is created.
C7_NonDuplicateFilenames ==
  /\ sb.pc = "initBatchUpload" =>
       /\ Len(sb.filenames) = Len(sb.files) - Cardinality(DuplicateFiles)
       /\ \A n \in DOMAIN sb.filenames :
            \E i \in (DOMAIN sb.files) \ DuplicateFiles :
              sb.files[i].name = sb.filenames[n]
       /\ \A m, n \in DOMAIN sb.filenames :
            m < n => PositionOf(m) < PositionOf(n)
  /\ (Len(sb.files) > 0 /\ DuplicateFiles = DOMAIN sb.files) =>
       /\ sb.pc = "returned"
       /\ remote.initCalls = 0
       /\ remote.subscriptions = 0
       /\ state.activeBatchUpload = NULL
       /\ state.papers = <<>>

\* initBatchUpload is called for three files, the first two known duplicates
C7_Witness ==
  /\ sb.pc = "initBatchUpload"
  /\ Len(sb.files) = 3
  /\ sb.filenames = <<"f3.pdf">>

\* every submitted file was a known duplicate
C7_WitnessAllDuplicates ==
  /\ sb.pc = "returned"
  /\ Len(sb.files) = 2
  /\ Len(sb.duplicates) = 2

\* the task of the active batch with identifier taskId
TaskOf(s, taskId) ==
  LET k == CHOOSE k \in DOMAIN s.activeBatchUpload.tasks :
             s.activeBatchUpload.tasks[k].taskId = taskId
  IN s.activeBatchUpload.tasks[k]

\* C8: cancelUploadTask makes no remote call and changes no task state when
\* the task's status is complete, processing or error; retryUploadTask
\* changes no task state unless the task's status is error.
C8_ControlsGuarded ==
  [][ /\ \A taskId \in { TaskIds[k] : k \in DOMAIN TaskIds } :
           (ctl' = Append(ctl, [op |-> "cancel", taskId |-> taskId])) =>
             TaskOf(state, taskId).status \notin {"complete", "processing", "error"}
      /\ \A k \in DOMAIN ctl :
           (ctl' = Without(ctl, k) /\ state.activeBatchUpload # NULL) =>
             LET before == TaskOf(state, ctl[k].taskId)
                 after == TaskOf(state', ctl[k].taskId)
             IN /\ (ctl[k].op = "cancel"
                      /\ before.status \in {"complete", "processing", "error"})
                     => after = before
                /\ (ctl[k].op = "retry" /\ before.status # "error")
                     => after = before ]_vars

\* the body transfer of task k fails in this step
TransferFails(k) ==
  /\ k \in DOMAIN remote.transfers
  /\ remote.transfers[k] = "inflight"
  /\ remote'.transfers[k] = "failed"

\* the positions of the task ids this step adds to the uploadBatchFile calls
StartedInStep ==
  { j \in DOMAIN sb'.batch.tasks :
      \E n \in (Len(remote.uploadCalls) + 1)..Len(remote'.uploadCalls) :
        remote'.uploadCalls[n] = sb'.batch.tasks[j].taskId }

\* C17: when the body transfer of one task fails, that task alone is set to
\* error with the failure message; every other task is left as it was or,
\* when the next chunk starts, set to uploading as its transfer begins; once
\* the loop is over every task was transferred, each exactly once and in
\* task order, so a failed transfer is never attempted again.
C17_FailureIsolated ==
  /\ [][ \A k \in 1..(MaxFiles + 1) : TransferFails(k) =>
            LET before == state.activeBatchUpload.tasks
                after == state'.activeBatchUpload.tasks
            IN /\ DOMAIN after = DOMAIN before
               /\ after[k] =
                    [before[k] EXCEPT
                       !.status = "error",
                       !.errorMessage = "Request failed with status 500"]
               /\ \A j \in DOMAIN before \ {k} :
                    IF j \in StartedInStep
                      THEN after[j] = [before[j] EXCEPT !.status = "uploading"]
                      ELSE after[j] = before[j] ]_vars
  /\ [](sb.batch # NULL =>
          \A m, n \in DOMAIN remote.uploadCalls :
            remote.uploadCalls[m] = remote.uploadCalls[n] => m = n)
  /\ []((sb.batch # NULL /\ sb.pc \in {"startBatchProcessing", "returned"}) =>
          remote.uploadCalls =
            [k \in DOMAIN sb.batch.tasks |-> sb.batch.tasks[k].taskId])

\* the transfer of the first of three tasks failed, the second and the third
\* were transferred all the same and the loop is over
C17_Witness ==
  /\ sb.batch # NULL
  /\ sb.pc = "startBatchProcessing"
  /\ Len(sb.batch.tasks) = 3
  /\ remote.transfers = <<"failed", "ok", "ok">>
  /\ remote.uploadCalls = <<"t1", "t2", "t3">>
  /\ state.activeBatchUpload.tasks[1].status = "error"
  /\ state.activeBatchUpload.tasks[1].errorMessage = "Request failed with status 500"
  /\ state.activeBatchUpload.tasks[2].status = "uploading"
  /\ state.activeBatchUpload.tasks[3].status = "uploading"

\* C18: when hashing a file or the checkDuplicates call failed,
\* initBatchUpload, uploadBatchFile and startBatchProcessing are never
\* called, no subscription is opened, and activeBatchUpload and papers stay
\* as they were when startBatchUpload was called.
C18_AbortOnHashOrDedupFailure ==
  sb.failedAt \in {"computeFileHash", "checkDuplicates"} =>
    /\ sb.pc = "returned"
    /\ remote.initCalls = 0
    /\ remote.uploadCalls = <<>>
    /\ remote.startProcessingCalls = 0
    /\ remote.subscriptions = 0
    /\ state.activeBatchUpload = NULL
    /\ state.papers = <<>>

\* the checkDuplicates call for three files failed and the function returned
C18_Witness ==
  /\ sb.failedAt = "checkDuplicates"
  /\ sb.pc = "returned"
  /\ Len(sb.files) = 3
  /\ remote.checkDuplicatesCalls = 1
  /\ remote.initCalls = 0

\* hashing failed before checkDuplicates was called
C18_WitnessHash ==
  /\ sb.failedAt = "computeFileHash"
  /\ sb.pc = "returned"
  /\ remote.checkDuplicatesCalls = 0

(***************************************************************************)
(* Properties of the end of submitQuery (SpecQueryFair)                    *)
(***************************************************************************)
\* a submitQuery call with non-empty trimmed text is running
QueryRunning == sq.pc \in {"createConversation", "fetch", "read"}

\* the call has run the dispatches of its finally block
FinalBlockReached ==
  sq.pc \in {"getStats", "returned"} /\ trim(sq.query) # ""

CompleteProcessed ==
  /\ sq.pc = "read"
  /\ received.last # NULL
  /\ received.last.type = "complete"

\* the response message the running submitQuery call created
ResponseMessages == MessagesOf(sq.conversationId, sq.responseMessageId)

\* C12: right after a complete event the response Message's content is the
\* concatenation of the answer_chunk fragments received when one of them
\* was non-empty, and the event's answer otherwise; its citationChecks are
\* the citation records received when there was one, and the event's
\* citation_checks otherwise.
C12_FinalMessage ==
  CompleteProcessed =>
    /\ ResponseMessages # {}
    /\ \A message \in ResponseMessages :
         /\ message.content =
              IF Concat(received.fragments) # ""
                THEN Concat(received.fragments)
                ELSE received.last.answer
         /\ message.metadata # NULL
         /\ message.metadata.citationChecks =
              IF received.citations # <<>>
                THEN received.citations
                ELSE received.last.citation_checks

\* a complete event after a streamed fragment, without a streamed citation
C12_Witness ==
  /\ CompleteProcessed
  /\ received.fragments = <<"", "a">>
  /\ received.citations = <<>>
  /\ \E message \in ResponseMessages :
       message.content = "a" /\ message.metadata.citationChecks = BulkCitationChecks

\* the running call created its conversation
ConversationCreated == \E n \in DOMAIN UUIDS : sq.conversationId = UUIDS[n]

\* this step is a submitQuery call with non-empty text and no active
\* conversation, up to its first await
SubmitsWithoutConversation ==
  /\ sq.pc = "idle"
  /\ sq'.pc # "idle"
  /\ trim(sq'.query) # ""
  /\ state.activeConversationId = null

\* this step is the rest of the setup of that call
SetsUpNewConversation == sq.pc = "createConversation" /\ sq'.pc = "fetch"

\* C19: a non-empty query submitted while no conversation is active creates
\* exactly one conversation, which becomes the active one; the call appends
\* to it the query Message and then an empty response Message, every
\* canonical pipeline step is pending, and streamingState is bound to that
\* response Message; right after a complete event with answer a and no
\* streamed fragment the response Message's content is a and
\* pipelineProgress is null.
C19_ScenarioA ==
  /\ [][ SubmitsWithoutConversation =>
            /\ state'.conversations =
                 <<[id |-> sq'.conversationId, messages |-> <<>>]>>
                   \o state.conversations
            /\ \A i \in DOMAIN state.conversations :
                 state.conversations[i].id # sq'.conversationId
            /\ state'.activeConversationId = sq'.conversationId ]_vars
  /\ [][ SetsUpNewConversation =>
            /\ state'.activeConversationId = sq.conversationId
            /\ DOMAIN state'.conversations = DOMAIN state.conversations
            /\ \A i \in DOMAIN state.conversations :
                 IF state.conversations[i].id = sq.conversationId
                   THEN LET messages == state'.conversations[i].messages
                        IN /\ state.conversations[i].messages = <<>>
                           /\ Len(messages) = 2
                           /\ messages[1].type = "query"
                           /\ messages[1].content = sq.query
                           /\ messages[2].type = "response"
                           /\ messages[2].content = ""
                           /\ messages[2].id # messages[1].id
                           /\ state'.streamingState # NULL
                           /\ state'.streamingState.messageId = messages[2].id
                           /\ state'.streamingState.conversationId =
                                sq.conversationId
                   ELSE state'.conversations[i] = state.conversations[i]
            /\ state'.pipelineProgress # NULL
            /\ Len(state'.pipelineProgress) = Len(PIPELINE_STEPS)
            /\ \A i \in DOMAIN PIPELINE_STEPS :
                 /\ state'.pipelineProgress[i].name = PIPELINE_STEPS[i]
                 /\ state'.pipelineProgress[i].status = "pending" ]_vars
  /\ []((CompleteProcessed /\ ConversationCreated
           /\ Concat(received.fragments) = "") =>
          /\ ResponseMessages # {}
          /\ \A message \in ResponseMessages :
               message.content = received.last.answer
          /\ state.pipelineProgress = NULL)

\* "What is X?" was submitted with no conversation at all, and the complete
\* event, the first line of the stream, left its answer in the response
C19_Witness ==
  /\ CompleteProcessed
  /\ ConversationCreated
  /\ sq.query = "What is X?"
  /\ received.count = 1
  /\ Len(state.conversations) = 1
  /\ state.activeConversationId = sq.conversationId
  /\ Len(state.conversations[1].messages) = 2
  /\ state.conversations[1].messages[1].content = "What is X?"
  /\ state.conversations[1].messages[2].content = "X is Y"
  /\ state.pipelineProgress = NULL

(***************************************************************************)
(* Properties of buildCitationCheckMap (SpecCitations)                     *)
(***************************************************************************)
\* the call has gone through its whole list
MapBuilt == cm.k = Len(cm.citationChecks)

\* the positions of the entries with citation id `id`
EntriesOf(id) ==
  { i \in DOMAIN cm.citationChecks : cm.citationChecks[i].citation_id = id }

\* the first position, among those of `id`, of minimum confidence
FirstMinimum(id) ==
  CHOOSE i \in EntriesOf(id) :
    \A j \in EntriesOf(id) :
      \/ cm.citationChecks[i].confidence < cm.citationChecks[j].confidence
      \/ (cm.citationChecks[i].confidence = cm.citationChecks[j].confidence
            /\ i <= j)

\* C13: for every list of citation checks, the map buildCitationCheckMap
\* returns has exactly the citation ids of the list as keys and maps each
\* to the entry of minimum confidence among the entries with that id, the
\* first of them on ties, whatever the order of the entries.
C13_MinimumConfidence ==
  MapBuilt =>
    /\ DOMAIN cm.checkMap =
         { cm.citationChecks[i].citation_id : i \in DOMAIN cm.citationChecks }
    /\ \A id \in DOMAIN cm.checkMap :
         cm.checkMap[id] = cm.citationChecks[FirstMinimum(id)]

\* a lower confidence arrived first, then a higher one, then a tie with the
\* lowest: the first entry is kept
C13_Witness ==
  /\ MapBuilt
  /\ Len(cm.citationChecks) = 3
  /\ \A i \in 1..3 : cm.citationChecks[i].citation_id = 1
  /\ cm.citationChecks[1].confidence = 1
  /\ cm.citationChecks[2].confidence = 9
  /\ cm.citationChecks[3].confidence = 1
  /\ cm.citationChecks[1].is_valid # cm.citationChecks[3].is_valid
  /\ cm.checkMap[1] = cm.citationChecks[1]

\* the messages the streaming state is bound to
BoundMessages ==
  MessagesOf(state.streamingState.conversationId, state.streamingState.messageId)

\* list `after` is list `before`, or `before` with one record appended
GrownByAppending(before, after) ==
  \/ after = before
  \/ /\ Len(after) = Len(before) + 1
     /\ SubSeq(after, 1, Len(before)) = before

\* C14: while a query is streaming, the citationChecks of the bound response
\* Message equal StreamingState.citationChecks - the citation records
\* received, in order - and in every step that keeps the query streaming
\* both lists stay as they are or grow by one appended record.
C14_CitationsMirrored ==
  /\ [](state.streamingState # NULL =>
          /\ state.streamingState.citationChecks = received.citations
          /\ BoundMessages # {}
          /\ \A message \in BoundMessages :
               /\ message.metadata # NULL
               /\ message.metadata.citationChecks =
                    state.streamingState.citationChecks)
  /\ [][ (state.streamingState # NULL /\ state'.streamingState # NULL) =>
           /\ GrownByAppending(state.streamingState.citationChecks,
                               state'.streamingState.citationChecks)
           /\ \A before \in BoundMessages :
                \A after \in MessagesOf(state'.streamingState.conversationId,
                                        state'.streamingState.messageId) :
                  GrownByAppending(before.metadata.citationChecks,
                                   after.metadata.citationChecks) ]_vars

\* two citation records were appended while streaming
C14_Witness ==
  /\ state.streamingState # NULL
  /\ Len(state.streamingState.citationChecks) = 2
  /\ received.citations[1].confidence = 90
  /\ received.citations[2].confidence = 30
  /\ \E message \in BoundMessages : Len(message.metadata.citationChecks) = 2

(***************************************************************************)
(* Properties of the batch progress subscription (SpecBatch)               *)
(***************************************************************************)
\* this step hands one event of the batch stream to the handler
BatchEventStep == remote'.batchEvents = remote.batchEvents + 1

C16_NoBatchNoOp ==
  [][ (BatchEventStep /\ state.activeBatchUpload = NULL
         /\ remote'.lastEvent.type \in
              {"task_progress", "task_complete", "task_error"})
        => state' = state ]_vars

(***************************************************************************)
(* Properties of the read loop of queryPapersStream (SpecStream)           *)
(***************************************************************************)
\* the bytes of the line that the line feed at position n of `body` ends
LineEndingAt(body, n) ==
  LET feeds == { i \in 1..(n - 1) : body[i] = 10 }
      start == IF feeds = {} THEN 1
               ELSE (CHOOSE i \in feeds : \A j \in feeds : j <= i) + 1
  IN SubSeq(body, start, n - 1)

\* the JSON values a line carries: after `data: `, a valid JSON text with
\* nothing but white space around it
CarriedBy(line) ==
  IF ~startsWith(line, <<"d", "a", "t", "a", ":", " ">>) THEN {}
  ELSE LET payload == slice(line, 6)
       IN { SubSeq(payload, a + 1, b) :
              a \in { a \in 0..Len(payload) :
                        \A i \in 1..a : payload[i] \in WhiteSpace },
              b \in { b \in 0..Len(payload) :
                        \A i \in (b + 1)..Len(payload) : payload[i] \in WhiteSpace } }
            \cap { text \in { SubSeq(payload, a + 1, b) :
                                a \in 0..Len(payload), b \in 0..Len(payload) } :
                     JSONparse(text).ok }

\* the events of the lines ended within the first n bytes of `body`, in the
\* order of the lines
RECURSIVE EventsUpTo(_, _)
EventsUpTo(body, n) ==
  IF n = 0 THEN <<>>
  ELSE LET carried == IF body[n] = 10
                        THEN CarriedBy(decodeFrom(<<>>, LineEndingAt(body, n),
                                                  <<>>).text)
                        ELSE {}
       IN IF carried = {} THEN EventsUpTo(body, n - 1)
          ELSE Append(EventsUpTo(body, n - 1), CHOOSE event \in carried : TRUE)

\* C20: whatever the chunks the body was read in, the calls of the event
\* callback so far are the JSON values of the `data: ` lines ended by a
\* line feed within the bytes read so far, one call a line and in line
\* order; a line whose JSON is malformed adds no call and the loop reads on
\* to the end of the body.
C20_EveryLineOnceInOrder ==
  /\ rd.pc # "idle" => rd.log = EventsUpTo(rd.stream, rd.pos)
  /\ rd.pc = "returned" => rd.pos = Len(rd.stream)

\* a malformed line and then a line with a two-byte character were read to
\* the end of the body, and the callback was called for the second alone
C20_Witness ==
  /\ rd.pc = "returned"
  /\ rd.stream = encode(<<"d", "a", "t", "a", ":", " ", "{", "\n",
                          "d", "a", "t", "a", ":", " ", "\"", "U+00E9", "\"",
                          "\n">>)
  /\ rd.log = << <<"\"", "U+00E9", "\"">> >>

\* a chunk ended between the two bytes of a character, after a first call
C20_WitnessSplitCharacter ==
  /\ rd.pc = "read"
  /\ rd.pending = <<195>>
  /\ rd.log = << <<"1">> >>

(***************************************************************************)
(* Properties of the end of the batch progress stream (SpecChunks)         *)
(***************************************************************************)
\* C21: batch_complete is terminal: no event that follows it in the stream,
\* in the same chunk or in a later one, is handed to the handler, and the
\* step that handles it starts a library refresh and a statistics refresh.
C21_BatchCompleteTerminal ==
  /\ [](remote.afterComplete = 0)
  /\ []((remote.lastEvent # NULL /\ remote.lastEvent.type = "batch_complete")
          => remote.closed)
  /\ [][ (~remote.closed /\ remote'.closed) =>
            /\ remote'.getPapersPending >= remote.getPapersPending + 1
            /\ remote'.getStatsPending = remote.getStatsPending + 1 ]_vars
  /\ [][ remote.closed =>
            /\ remote'.batchEvents = remote.batchEvents
            /\ remote'.lastEvent = remote.lastEvent ]_vars

\* batch_complete came first in a chunk of two lines: the second line was
\* left unread and both refreshes were started
C21_Witness ==
  /\ remote.closed
  /\ remote.lastEvent.type = "batch_complete"
  /\ remote.dropped = 1
  /\ remote.batchEvents = 1
  /\ remote.getPapersPending = 1
  /\ remote.getStatsPending = 1

(***************************************************************************)
(* Properties of the task controls (SpecUpload)                            *)
(***************************************************************************)
\* C22: with an active batch, a cancel call that the remote service accepted
\* sets its task to error with message "Cancelled", an accepted retry call
\* sets its task to pending with no error message and progress 0, and no
\* other task changes; a call the remote service refused changes no task;
\* nothing changes before the remote call settles; with no active batch the
\* remote service is not called and the state is left as it is.
C22_ControlEffects ==
  /\ [][ \A k \in DOMAIN ctl :
            (ctl' = Without(ctl, k) /\ state.activeBatchUpload # NULL) =>
              LET before == state.activeBatchUpload.tasks
                  after == state'.activeBatchUpload.tasks
              IN /\ DOMAIN after = DOMAIN before
                 /\ \A j \in DOMAIN before :
                      IF before[j].taskId = ctl[k].taskId /\ remote'.settledOk
                        THEN after[j] =
                               IF ctl[k].op = "cancel"
                                 THEN [before[j] EXCEPT
                                         !.status = "error",
                                         !.errorMessage = "Cancelled"]
                                 ELSE [before[j] EXCEPT
                                         !.status = "pending",
                                         !.errorMessage = null,
                                         !.progressPercent = 0]
                        ELSE after[j] = before[j] ]_vars
  /\ [][ Len(ctl') > Len(ctl) => state' = state ]_vars
  /\ [][ state.activeBatchUpload = NULL =>
            /\ ctl' = ctl
            /\ remote'.cancelCalls = remote.cancelCalls
            /\ remote'.retryCalls = remote.retryCalls
            /\ remote'.clicks # remote.clicks => state' = state ]_vars

\* the first task was cancelled and then retried, both calls accepted, and a
\* control was called before the batch existed
C22_Witness ==
  /\ state.activeBatchUpload # NULL
  /\ remote.cancelCalls = <<"t1">>
  /\ remote.retryCalls = <<"t1">>
  /\ ctl = <<>>
  /\ remote.settledOk
  /\ state.activeBatchUpload.tasks[1].status = "pending"
  /\ state.activeBatchUpload.tasks[1].errorMessage = null

\* a control was called while no batch was active
C22_WitnessNoBatch ==
  /\ state.activeBatchUpload = NULL
  /\ remote.clicks > 0
  /\ remote.cancelCalls = <<>>
  /\ remote.retryCalls = <<>>

(***************************************************************************)
(* Properties of the messages a query leaves behind (SpecQuery)            *)
(***************************************************************************)
\* the contents that start with "Error: " in this model
ErrorContents ==
  { "Error: " \o m :
      m \in FetchFailures \cup ReadFailures
              \cup { event.message : event \in ErrorEvents } }

\* the messages of the conversation of the running call
MessagesOfQuery ==
  UNION { { state.conversations[i].messages[j] :
              j \in DOMAIN state.conversations[i].messages } :
          i \in { i \in DOMAIN state.conversations :
                    state.conversations[i].id = sq.conversationId } }

\* C23: after submitQuery has returned, the response Message of the query
\* has non-empty content, or a response Message starting with "Error: " has
\* been appended to its conversation, whether the transport failed, an
\* error event arrived, or the stream closed without a complete event.
C23_NoStuckPlaceholder ==
  (sq.pc = "returned" /\ trim(sq.query) # "") =>
    \/ \E message \in ResponseMessages : message.content # ""
    \/ \E message \in MessagesOfQuery :
         message.type = "response" /\ message.content \in ErrorContents

(***************************************************************************)
(* Properties of the progress branch of the event callback (SpecQuery)     *)
(***************************************************************************)
\* this step hands one line of the query stream to the callback
ReadEventStep == sq.pc = "read" /\ received'.count = received.count + 1

\* C24: when an event for step k resolves an earlier step j that was not
\* yet marked completed, j becomes skipped exactly when j's own most recent
\* event carried a skipped flag, and completed otherwise, whatever the
\* skipped flag of the event for k.  The data of j's own most recent event
\* is the data its entry of pipelineProgress holds before the step.
C24_OwnSkippedFlagDecides ==
  [][ (ReadEventStep /\ received'.last.type = "progress"
         /\ findIndex(received'.last.step) >= 0
         /\ state.pipelineProgress # NULL) =>
        \A j \in EarlierSteps(received'.last.step) :
          PIPELINE_STEPS[j] \notin sq.completedSteps =>
            state'.pipelineProgress[j].status =
              IF state.pipelineProgress[j].data.present
                   /\ state.pipelineProgress[j].data.skipped
                THEN "skipped" ELSE "completed" ]_vars

\* C25: a progress event whose step is none of the canonical visible steps
\* (answer_chunk, citation_verified, answer_complete, web_search_progress,
\* with or without payload) leaves every entry of pipelineProgress as it was.
C25_SyntheticStepsFrame ==
  [][ (ReadEventStep /\ received'.last.type = "progress"
         /\ received'.last.step \notin
              { PIPELINE_STEPS[i] : i \in DOMAIN PIPELINE_STEPS }) =>
        state'.pipelineProgress = state.pipelineProgress ]_vars

\* an answer_chunk event without text went through the whole progress
\* branch while a visible step was active
C25_Witness ==
  /\ sq.pc = "read"
  /\ received.last # NULL
  /\ received.last.step = "answer_chunk"
  /\ received.last.data.chunk = ""
  /\ "answer_chunk" \in sq.completedSteps
  /\ state.pipelineProgress # NULL
  /\ \E i \in DOMAIN state.pipelineProgress :
       state.pipelineProgress[i].status = "active"

(***************************************************************************)
(* Properties of the conversation list (SpecConversations)                 *)
(***************************************************************************)
\* C26: after any sequence of CREATE_CONVERSATION, SET_ACTIVE_CONVERSATION
\* (to an existing id or null), DELETE_CONVERSATION, CLEAR_CONVERSATIONS and
\* LOAD_CONVERSATIONS, activeConversationId is null or the id of a
\* conversation of the list.
C26_ActiveConversationExists ==
  \/ state.activeConversationId = null
  \/ \E i \in DOMAIN state.conversations :
       state.conversations[i].id = state.activeConversationId

(***************************************************************************)
(* Properties of the order of the messages (SpecQuery)                     *)
(***************************************************************************)
\* C27: in every conversation the messages alternate query, response,
\* query, response: a query at every even index of the array (the odd
\* positions of the sequence), a response at every odd index, whatever the
\* outcome of the query, failures included.
C27_MessagesAlternate ==
  \A i \in DOMAIN state.conversations :
    \A j \in DOMAIN state.conversations[i].messages :
      state.conversations[i].messages[j].type =
        IF j % 2 = 1 THEN "query" ELSE "response"

(***************************************************************************)
(* Properties of a cancelled task (SpecUpload)                             *)
(***************************************************************************)
\* the calls of api.uploadBatchFile made for this task
TransfersOf(r, taskId) ==
  { n \in DOMAIN r.uploadCalls : r.uploadCalls[n] = taskId }

\* C28: a task that cancelUploadTask has set to error with message
\* "Cancelled" keeps status error and has no body transfer started for it
\* in any step, as long as no retry call for it is awaiting its answer;
\* this holds also when the task was still pending in a later chunk of the
\* running upload loop.
C28_CancelledStaysCancelled ==
  [][ state.activeBatchUpload # NULL =>
        \A k \in DOMAIN state.activeBatchUpload.tasks :
          LET task == state.activeBatchUpload.tasks[k]
          IN (/\ task.status = "error"
              /\ task.errorMessage = "Cancelled"
              /\ \A c \in DOMAIN ctl :
                   ~(ctl[c].op = "retry" /\ ctl[c].taskId = task.taskId))
               => /\ state'.activeBatchUpload.tasks[k].status = "error"
                  /\ TransfersOf(remote', task.taskId)
                       = TransfersOf(remote, task.taskId) ]_vars

(***************************************************************************)
(* Properties of two calls in flight (SpecCalls)                           *)
(***************************************************************************)
\* the response Message of call c, as the conversation holds it
ResponseOf(c) ==
  MessagesOf(twoCalls[c].sq.conversationId, twoCalls[c].sq.responseMessageId)

\* this step hands one event of its stream to the callback of call c
ReadEventStepOf(c) == twoCalls'[c].received.count = twoCalls[c].received.count + 1

\* C29: with two calls in flight, an event of the stream of one call leaves
\* the response Message of the other call as it is; and as long as a call
\* has not had its complete event, after each of its fragments the content
\* of its own response Message is the fragments of its stream so far, and
\* after each of its citation records the citation checks of its own
\* response Message are the records of its stream so far, whether or not
\* the other stream has completed.
C29_StreamsKeptApart ==
  [][ \A c \in 1..2 :
        (/\ ReadEventStepOf(c)
         /\ twoCalls[3 - c].sq.responseMessageId # null)
          => /\ ResponseOf(3 - c)' = ResponseOf(3 - c)
             /\ twoCalls'[c].received.last.type = "progress" =>
                  \A message \in ResponseOf(c)' :
                    /\ message.content = twoCalls'[c].sq.streamedContent
                    /\ message.metadata.citationChecks
                         = twoCalls'[c].sq.streamedCitations ]_vars

(***************************************************************************)
(* Properties of the placeholder papers (SpecBatch)                        *)
(***************************************************************************)
\* C30: while a batch is active and batch_complete has not arrived, every
\* task of it that is not complete has a Paper whose id is its taskId in
\* the papers list, also after the refresh that the task_complete event of
\* another task started has replaced the list with the listing of the
\* remote service.
C30_PlaceholdersKept ==
  (state.activeBatchUpload # NULL /\ ~remote.closed) =>
    \A k \in DOMAIN state.activeBatchUpload.tasks :
      LET task == state.activeBatchUpload.tasks[k]
      IN task.status # "complete" =>
           \E i \in DOMAIN state.papers : state.papers[i].id = task.taskId

====
